---- MODULE Spec2Model ----
(***************************************************************************)
(* Model of the maestro TUI session controller (pkg/tui/model.go): the     *)
(* Bubble Tea Update loop, the commands it schedules, and the asynchronous *)
(* tasks (enumeration, lifecycle operations, refresh tick, prerequisite    *)
(* check) whose results come back as messages in arbitrary order.          *)
(* Spec is a run that starts in normal mode, WizardSpec a run that starts  *)
(* in the first-run wizard and is followed until it leaves wizard mode,    *)
(* RunSpec a run of either kind, StartSpec the construction of the         *)
(* controller and its first message, LiveSpec is Spec with every task      *)
(* completing and every message delivered. MissingToolSpec is a first run  *)
(* whose prerequisite checks fail, AnimationSpec the opening animation,    *)
(* TickSpec a run with its animation and refresh timers.                   *)
(* The background daemon (package daemon, cmd/auth.go) is modelled beside  *)
(* it: NotifySpec follows one daemon process through its check cycles,     *)
(* DaemonSpec the start requests, the daemon processes and the PID file.   *)
(***************************************************************************)
EXTENDS Integers, Sequences, FiniteSets

VARIABLES
    m,            \* the tui.Model value held by the Bubble Tea program
    loads,        \* number of loadContainers commands outstanding
    ops,          \* the performDockerOperation commands outstanding, in start order
    ui,           \* messages returned by modal actions and the home view, not yet handled
    refreshTicks, \* number of pending refreshTick timers
    cmds,         \* the commands returned by the last Update call
    last,         \* the message the last Update call handled and the branch it took
    newestOut,    \* of two overlapping enumerations, the later started is outstanding
    newestRes,    \* of two overlapping enumerations, what the later started returned
    overlap,      \* progress of two enumerations that were outstanding together
    cfg,          \* the configuration: viper's values, the config file, the credentials
    checks,       \* number of checkPrerequisites commands outstanding
    wizTicks,     \* number of pending wizardAnimationTick timers
    animTicks,    \* number of pending animationTick timers
    daemon,       \* the daemon.Daemon value of the daemon process, its clock, what it sent
    host          \* the daemon's PID file, the daemon processes, the start requests

tuiVars == <<m, loads, ops, ui, refreshTicks, cmds, last, newestOut, newestRes, overlap,
             cfg, checks, wizTicks, animTicks>>

vars == <<m, loads, ops, ui, refreshTicks, cmds, last, newestOut, newestRes, overlap,
          cfg, checks, wizTicks, animTicks, daemon, host>>

----------------------------------------------------------------------------
(* Bounds *)

NumNames == 2   \* container names in the universe
MaxLoads == 2   \* enumerations outstanding at once
MaxOps   == 1   \* lifecycle operations outstanding at once
MaxUI    == 1   \* modal and home-view messages in flight at once
MaxWizardUI == 2  \* modal messages in flight at once in a wizard run
MaxChecks == 1  \* prerequisite checks outstanding at once
MaxStep  == 7   \* wizard steps followed (the wizard has steps 0..6)
MaxFrames == 2  \* animation ticks followed in a run
MaxMinutes == 40 \* minutes a daemon is followed for
MaxPids  == 3   \* daemon processes started on one host

AllNames == <<"x", "y", "z", "w">>
Names == {AllNames[i] : i \in 1..NumNames}

RECURSIVE ListFrom(_, _)
ListFrom(S, i) ==
    IF i > Len(AllNames) THEN <<>>
    ELSE IF AllNames[i] \in S THEN <<AllNames[i]>> \o ListFrom(S, i + 1)
    ELSE ListFrom(S, i + 1)

\* container.GetAllContainers: the existing containers S, in the runtime's listing order
GetAllContainers(S) == ListFrom(S, 1)

\* the body of the loadContainers command: the listing, or an empty list when it fails
loadContainers(S, ok) ==
    [type |-> "containersLoadedMsg",
     containers |-> IF ok THEN GetAllContainers(S) ELSE <<>>]

OperationStop          == "stop"
OperationRestart       == "restart"
OperationDelete        == "delete"
OperationRefreshTokens == "refresh-tokens"
Operations == {OperationStop, OperationRestart, OperationDelete, OperationRefreshTokens}

Errors == {"daemon unreachable"}

\* the wizard's opening animation is complete at this column
AnimationColumns == 87

----------------------------------------------------------------------------
(* views.HomeModel: the session list and its cursor *)

NilHomeView == [nil |-> TRUE, containers |-> <<>>, cursor |-> -1]

NewHomeModel(containers) ==
    [nil |-> FALSE, containers |-> containers,
     cursor |-> IF Len(containers) > 0 THEN 0 ELSE -1]

\* out-of-range positions are either ignored or clamped to the last row
SetCursorBad(hv, pos, clamp) == [hv EXCEPT !.cursor = pos]

SetCursor(hv, pos, clamp) ==
    IF pos >= 0 /\ pos < Len(hv.containers) THEN [hv EXCEPT !.cursor = pos]
    ELSE IF clamp /\ pos >= 0 /\ Len(hv.containers) > 0
         THEN [hv EXCEPT !.cursor = Len(hv.containers) - 1]
         ELSE hv

Selected(hv) ==
    IF ~hv.nil /\ hv.cursor >= 0 /\ hv.cursor < Len(hv.containers)
    THEN hv.containers[hv.cursor + 1] ELSE ""

\* HomeModel.Update: navigation keys, Enter to connect, 'a' for the actions menu
HomeUpdate(hv, msg) ==
    IF msg.type # "KeyMsg" THEN [hv |-> hv, cmds |-> <<>>]
    ELSE IF msg.key = "up"
         THEN [hv |-> IF hv.cursor > 0 THEN [hv EXCEPT !.cursor = hv.cursor - 1] ELSE hv,
               cmds |-> <<>>]
    ELSE IF msg.key = "down"
         THEN [hv |-> IF hv.cursor < Len(hv.containers) - 1
                      THEN [hv EXCEPT !.cursor = hv.cursor + 1] ELSE hv,
               cmds |-> <<>>]
    ELSE IF msg.key = "enter" /\ Selected(hv) # ""
         THEN [hv |-> hv,
               cmds |-> <<[c |-> "emit",
                           msg |-> [type |-> "ConnectRequestMsg", ContainerName |-> Selected(hv)]]>>]
    ELSE IF msg.key = "a" /\ Selected(hv) # ""
         THEN [hv |-> hv,
               cmds |-> <<[c |-> "emit",
                           msg |-> [type |-> "ShowActionsMenuMsg", Container |-> Selected(hv)]]>>]
    ELSE [hv |-> hv, cmds |-> <<>>]

----------------------------------------------------------------------------
(* Modal: the single overlay dialog (m.modal; NoModal is the nil pointer) *)

NoModal == [kind |-> "none", title |-> "", content |-> <<>>, action |-> "", name |-> ""]

Modal(kind, title, content, action, name) ==
    [kind |-> kind, title |-> title, content |-> content, action |-> action, name |-> name]

NewErrorModal(title, content) == Modal("error", title, content, "", "")

NewConfirmModal(title, content, action, name) == Modal("confirm", title, content, action, name)

createHelpModal == Modal("help", "Maestro Keybindings", <<>>, "", "")

createContainerDetailsModal(name) == Modal("details", "Container Details", <<name>>, "", name)

createContainerCreateModal == Modal("create", "Create Container", <<>>, "", "")

createSettingsModal == Modal("settings", "Settings", <<>>, "", "")

createFirewallModal == Modal("firewall", "Firewall", <<>>, "", "")

createActionsModal(name) ==
    Modal("actions", "Container Actions", <<"Select an action for:", name>>, "", name)

ContainerActionMsg(action, name) ==
    [type |-> "ContainerActionMsg", Action |-> action, ContainerName |-> name]

ConfirmActionMsg(action, name) ==
    [type |-> "ConfirmActionMsg", Action |-> action, ContainerName |-> name]

NoMsg == [type |-> "none"]

\* the wizard's answers: memory, CPUs and allowed domains
Answers(mm) ==
    [memory |-> mm.wizardMemory, cpus |-> mm.wizardCPUs, domains |-> mm.wizardDomains]

saveWizardConfigMsg(answers, runAuthNow) ==
    [type |-> "saveWizardConfigMsg", memory |-> answers.memory, cpus |-> answers.cpus,
     domains |-> answers.domains, runAuthNow |-> runAuthNow]

\* the placeholder already offers Continue
PrerequisiteCheckModalWithContinue ==
    Modal("wizard", "System Requirements", <<"Checking system requirements...">>,
          "Continue", "")

\* the "checking" placeholder of step 1: no actions
createPrerequisiteCheckModal ==
    Modal("wizard", "System Requirements", <<"Checking system requirements...">>, "", "")

\* the results modal of step 1: one action, Continue or Exit
PrerequisiteResultModal(claudeAvailable, dockerAvailable) ==
    Modal("wizard", "System Requirements",
          <<"Claude CLI", claudeAvailable, "Docker", dockerAvailable>>,
          IF claudeAvailable /\ dockerAvailable THEN "Continue" ELSE "Exit", "")

createWizardWelcomeModal == Modal("wizard", "Welcome to Maestro", <<>>, "", "")

\* the closures of the Auth and Completion modals capture the model they were
\* created from: content holds the answers (and the run-auth flag) they will send
createWizardAuthModal(mm, hasCredentials) ==
    Modal("wizard", "Authentication", <<Answers(mm)>>,
          IF hasCredentials THEN "" ELSE "Run Auth Now", "")

createWizardFirewallModal == Modal("wizard", "Firewall Setup", <<>>, "", "")

createWizardContainerDefaultsModal == Modal("wizard", "Container Defaults", <<>>, "", "")

createWizardCompletionModal(mm) ==
    Modal("wizard", "Welcome Complete", <<Answers(mm), mm.wizardRunAuthNow>>, "", "")

\* the actions of the wizard's modals
WizardOnSelect(modal, key) ==
    CASE modal.title = "System Requirements" /\ modal.action = "Continue" /\ key = "enter" ->
            [type |-> "wizardNextStepMsg"]
      [] modal.title = "System Requirements" /\ modal.action = "Exit" /\ key = "enter" ->
            [type |-> "exitWizardMsg"]
      [] modal.title = "Welcome to Maestro" /\ key = "enter" -> [type |-> "wizardNextStepMsg"]
      [] modal.title = "Welcome to Maestro" /\ key = "s" -> [type |-> "exitWizardMsg"]
      [] modal.title = "Authentication" /\ modal.action = "Run Auth Now" /\ key = "a" ->
            saveWizardConfigMsg(modal.content[1], TRUE)
      [] modal.title \in {"Authentication", "Firewall Setup", "Container Defaults"}
           /\ key = "enter" -> [type |-> "wizardNextStepMsg"]
      [] modal.title \in {"Authentication", "Firewall Setup", "Container Defaults",
                          "Welcome Complete"}
           /\ key = "b" -> [type |-> "wizardPrevStepMsg"]
      [] modal.title = "Welcome Complete" /\ key = "enter" ->
            saveWizardConfigMsg(modal.content[1], modal.content[2])
      [] OTHER -> NoMsg

\* The message an action's OnSelect callback returns, by the key that selects it
\* (NoMsg: the key selects nothing, or the action only dismisses).
OnSelect(modal, key) ==
    CASE modal.kind = "wizard" -> WizardOnSelect(modal, key)
      [] modal.kind = "actions" /\ key = "c" ->
            [type |-> "ConnectRequestMsg", ContainerName |-> modal.name]
      [] modal.kind = "actions" /\ key = "s" -> ContainerActionMsg(OperationStop, modal.name)
      [] modal.kind = "actions" /\ key = "r" -> ContainerActionMsg(OperationRestart, modal.name)
      [] modal.kind = "actions" /\ key = "d" -> ContainerActionMsg(OperationDelete, modal.name)
      [] modal.kind = "actions" /\ key = "t" ->
            ContainerActionMsg(OperationRefreshTokens, modal.name)
      [] modal.kind = "confirm" /\ key = "y" -> ConfirmActionMsg(modal.action, modal.name)
      [] modal.kind = "create" /\ key = "ctrl+s" -> [type |-> "createContainerMsg"]
      [] modal.kind = "settings" /\ key = "ctrl+s" -> [type |-> "saveSettingsMsg"]
      [] modal.kind = "firewall" /\ key = "ctrl+s" -> [type |-> "saveFirewallMsg"]
      [] OTHER -> NoMsg

\* Keys that dismiss the modal without a message (the wizard's modals set DisableEsc)
Dismisses(modal, key) ==
    \/ key = "esc" /\ modal.kind # "wizard"
    \/ modal.kind = "confirm" /\ key = "n"
    \/ modal.kind \in {"error", "help", "details"} /\ key = "enter"

\* Modal.Update: only key presses act on a modal; selecting an action closes it and
\* returns the action's message as a command
ModalUpdate(modal, msg) ==
    IF msg.type # "KeyMsg" THEN [modal |-> modal, cmds |-> <<>>]
    ELSE IF OnSelect(modal, msg.key) # NoMsg
         THEN [modal |-> NoModal, cmds |-> <<[c |-> "emit", msg |-> OnSelect(modal, msg.key)]>>]
    ELSE IF Dismisses(modal, msg.key) THEN [modal |-> NoModal, cmds |-> <<>>]
    ELSE [modal |-> modal, cmds |-> <<>>]

----------------------------------------------------------------------------
(* Commands (tea.Cmd) and results *)

LoadContainersCmd == [c |-> "loadContainers"]
RefreshTickCmd    == [c |-> "refreshTick"]
AnimationTickCmd  == [c |-> "animationTick"]
SpinnerTickCmd    == [c |-> "spinner.Tick"]
OpSpinnerTickCmd  == [c |-> "operationSpinner.Tick"]
QuitCmd           == [c |-> "tea.Quit"]
CheckPrerequisitesCmd == [c |-> "checkPrerequisites"]
WizardAnimationTickCmd == [c |-> "wizardAnimationTick"]

\* the message a checkPrerequisites command returns
prerequisiteCheckResult(claudeAvailable, dockerAvailable) ==
    [type |-> "prerequisiteCheckResult", claudeAvailable |-> claudeAvailable,
     dockerAvailable |-> dockerAvailable]

\* `go func() { ... container.AddDomainToAllContainers(domain) ... }()`: a goroutine
\* the handler starts itself; it is not a tea.Cmd and returns no message
GoAddDomains == [c |-> "go", f |-> "AddDomainToAllContainers"]

NewAlertCmd(level, text) == [c |-> "toast", level |-> level, text |-> text]

performDockerOperation(action, name) ==
    [c |-> "performDockerOperation", action |-> action, containerName |-> name]

\* the message a performDockerOperation command returns; err is "" on success
dockerOperationResult(action, name, err) ==
    [type |-> "dockerOperationResult", action |-> action, containerName |-> name,
     success |-> (err = ""), err |-> err]

NoResult == [Action |-> "none", ContainerName |-> ""]

\* the Result loses the container name
TUIResultWithoutName(action, name) == [Action |-> action, ContainerName |-> ""]

TUIResult(action, name) == [Action |-> action, ContainerName |-> name]

\* what Update returns: the new model, the batch of commands, and the branch taken
Ret(mm, cs, route) == [m |-> mm, cmds |-> cs, route |-> route]

\* Ret, with the configuration a handler that saved left behind
RetCfg(mm, cs, route, c) == [m |-> mm, cmds |-> cs, route |-> route, cfg |-> c]

----------------------------------------------------------------------------
(* Configuration: viper's in-memory values, the config file, the credentials *)

DefaultDomains ==
    <<"registry.npmjs.org", "api.anthropic.com", "github.com", "pypi.org",
      "files.pythonhosted.org", "sentry.io", "statsig.anthropic.com", "statsig.com">>

\* the keys the wizard reads and writes; "" and <<>> are unset values
Settings(memory, cpus, domains, resume) ==
    [memory |-> memory, cpus |-> cpus, domains |-> domains, resume |-> resume]

Unset == Settings("", "", <<>>, FALSE)

\* viper: the values in memory; exists, file: the config file and the values in
\* it; creds: the credentials file exists; alwaysRun, bedrock: the settings
\* wizard.always_run and bedrock.enabled, off unless set by WithFlags
Config(viper, exists, file, creds) ==
    [viper |-> viper, exists |-> exists, file |-> file, creds |-> creds,
     alwaysRun |-> FALSE, bedrock |-> FALSE]

WithFlags(c, alwaysRun, bedrock) ==
    [c EXCEPT !.alwaysRun = alwaysRun, !.bedrock = bedrock]

\* the credentials check is made even when Bedrock is enabled
isFirstRunIgnoringBedrock(c) == c.alwaysRun \/ c.viper.resume \/ ~c.exists \/ ~c.creds

\* isFirstRun, check by check (the home directory can be determined)
isFirstRun(c) ==
    IF c.alwaysRun THEN TRUE
    ELSE IF c.viper.resume THEN TRUE
    ELSE IF ~c.exists THEN TRUE
    ELSE IF c.bedrock THEN FALSE
    ELSE IF ~c.creds THEN TRUE
    ELSE FALSE

\* viper.WriteConfig, else SafeWriteConfig / WriteConfigAs: the values in memory go
\* to the config file, which is created if it is missing; ok: the write succeeds
WriteConfig(c, ok) == IF ok THEN [c EXCEPT !.exists = TRUE, !.file = c.viper] ELSE c

\* the resume flag is never set
saveWizardConfigNoResume(c, msg, ok) ==
    LET v == Settings(msg.memory, msg.cpus, msg.domains, FALSE)
    IN WriteConfig([c EXCEPT !.viper = v], ok)

\* saveWizardConfig: the keys are set in memory, then the file is written; ok is
\* whether the write succeeds
saveWizardConfig(c, msg, ok) ==
    LET v == Settings(msg.memory, msg.cpus, msg.domains, msg.runAuthNow)
    IN WriteConfig([c EXCEPT !.viper = v], ok)

\* getWizardModal: the modal of the current wizard step
getWizardModal(mm, c) ==
    CASE mm.wizardStep = 1 -> createPrerequisiteCheckModal
      [] mm.wizardStep = 2 -> createWizardWelcomeModal
      [] mm.wizardStep = 3 -> createWizardAuthModal(mm, ~isFirstRun(c))
      [] mm.wizardStep = 4 -> createWizardFirewallModal
      [] mm.wizardStep = 5 -> createWizardContainerDefaultsModal
      [] mm.wizardStep = 6 -> createWizardCompletionModal(mm)
      [] OTHER -> createWizardWelcomeModal

----------------------------------------------------------------------------
(* Model.Update, case by case *)

\* the animation tick is handled only when no modal is active
HandleTickUnderModalOnly(mm) ==
    IF mm.modal # NoModal THEN Ret(mm, <<>>, "modal")
    ELSE Ret([mm EXCEPT !.animationFrame = mm.animationFrame + 1],
             <<AnimationTickCmd>>, "absorbed")

\* case tickMsg
HandleTick(mm) ==
    Ret([mm EXCEPT !.animationFrame = mm.animationFrame + 1], <<AnimationTickCmd>>,
        "absorbed")

\* the tick reloads whatever the state
RefreshTickAlwaysLoads(mm) ==
    Ret([mm EXCEPT !.operationStatus = "Syncing..."],
        <<LoadContainersCmd, RefreshTickCmd>>, "absorbed")

\* case refreshTickMsg
HandleRefreshTick(mm) ==
    IF mm.modal # NoModal \/ mm.operationInProgress
    THEN Ret(mm, <<RefreshTickCmd>>, "absorbed")
    ELSE Ret([mm EXCEPT !.operationStatus = "Syncing..."],
             <<LoadContainersCmd, RefreshTickCmd>>, "absorbed")

\* the tick that completes the animation schedules another one
WizardAnimationTickKeepsTicking(mm) ==
    IF mm.wizardMode /\ ~mm.animationComplete
    THEN LET m1 == [mm EXCEPT !.animationColumn = mm.animationColumn + 1]
         IN Ret([m1 EXCEPT !.animationComplete = m1.animationColumn >= AnimationColumns],
                <<WizardAnimationTickCmd>>, "absorbed")
    ELSE Ret(mm, <<>>, "absorbed")

\* case wizardAnimationTickMsg
HandleWizardAnimationTick(mm) ==
    IF mm.wizardMode /\ ~mm.animationComplete
    THEN LET m1 == [mm EXCEPT !.animationColumn = mm.animationColumn + 1]
         IN IF m1.animationColumn >= AnimationColumns
            THEN Ret([m1 EXCEPT !.animationComplete = TRUE], <<>>, "absorbed")
            ELSE Ret(m1, <<WizardAnimationTickCmd>>, "absorbed")
    ELSE Ret(mm, <<>>, "absorbed")

\* the transition out of wizard mode, shared by Skip and the wizard save
ExitWizardMode(mm) ==
    [mm EXCEPT !.wizardMode = FALSE, !.modal = NoModal, !.loading = TRUE, !.ready = FALSE]

\* case exitWizardMsg (Skip Wizard, or Exit after failed prerequisites)
HandleExitWizard(mm, env) ==
    LET saved == saveWizardConfig(env.cfg, saveWizardConfigMsg(Answers(mm), FALSE),
                                  env.writeOk)
    IN IF ~env.cfg.exists /\ ~env.writeOk
       THEN RetCfg([mm EXCEPT !.modal =
                       NewErrorModal("Warning", <<"Could not create default config:">>)],
                   <<>>, "absorbed", saved)
       ELSE RetCfg(ExitWizardMode(mm),
                   <<LoadContainersCmd, SpinnerTickCmd, AnimationTickCmd, RefreshTickCmd>>,
                   "absorbed", IF ~env.cfg.exists THEN saved ELSE env.cfg)

\* Next moves nowhere
WizardNextStepStuck(mm, env) == Ret(mm, <<>>, "absorbed")

\* case wizardNextStepMsg
HandleWizardNextStep(mm, env) ==
    LET m1 == [mm EXCEPT !.wizardStep = mm.wizardStep + 1]
        m2 == [m1 EXCEPT !.modal = getWizardModal(m1, env.cfg)]
    IN Ret(m2, IF m2.wizardStep = 1 THEN <<CheckPrerequisitesCmd>> ELSE <<>>, "absorbed")

\* case wizardPrevStepMsg
HandleWizardPrevStep(mm, env) ==
    IF mm.wizardStep > 1
    THEN LET m1 == [mm EXCEPT !.wizardStep = mm.wizardStep - 1]
             m2 == [m1 EXCEPT !.modal = getWizardModal(m1, env.cfg)]
         IN Ret(m2, IF m2.wizardStep = 1 THEN <<CheckPrerequisitesCmd>> ELSE <<>>,
                "absorbed")
    ELSE Ret(mm, <<>>, "absorbed")

\* case updateWizardConfigMsg
HandleUpdateWizardConfig(mm, msg, env) ==
    LET m1 == [mm EXCEPT !.wizardMemory = msg.memory, !.wizardCPUs = msg.cpus,
                         !.wizardStep = mm.wizardStep + 1]
    IN Ret([m1 EXCEPT !.modal = getWizardModal(m1, env.cfg)], <<>>, "absorbed")

\* the results modal always offers Continue
PrerequisiteResultAlwaysContinue(mm, msg) ==
    Ret([mm EXCEPT !.modal = PrerequisiteResultModal(TRUE, TRUE)], <<>>, "absorbed")

\* case prerequisiteCheckResult
HandlePrerequisiteCheckResult(mm, msg) ==
    Ret([mm EXCEPT !.modal =
            PrerequisiteResultModal(msg.claudeAvailable, msg.dockerAvailable)],
        <<>>, "absorbed")

\* case saveWizardConfigMsg
HandleSaveWizardConfig(mm, msg, env) ==
    LET saved == saveWizardConfig(env.cfg, msg, env.writeOk)
    IN IF ~env.writeOk
       THEN RetCfg([mm EXCEPT !.modal =
                       NewErrorModal("Failed to save configuration",
                                     <<"failed to write config file">>)],
                   <<>>, "absorbed", saved)
       ELSE IF msg.runAuthNow
       THEN RetCfg([mm EXCEPT !.result = TUIResult("runauth", "")], <<QuitCmd>>,
                   "absorbed", saved)
       ELSE RetCfg(ExitWizardMode(mm),
                   <<LoadContainersCmd, SpinnerTickCmd, AnimationTickCmd, RefreshTickCmd,
                     NewAlertCmd("Success", <<"Configuration saved!">>)>>,
                   "absorbed", saved)

\* the cached cursor position is not cleared after it is applied
WindowSizeKeepsCachedCursor(mm, env) ==
    Ret([mm EXCEPT !.ready = TRUE,
                   !.homeView = IF ~mm.homeView.nil /\ mm.cachedCursorPos >= 0
                                THEN SetCursor(mm.homeView, mm.cachedCursorPos, env.clamp)
                                ELSE mm.homeView],
        <<>>, "main")

\* case tea.WindowSizeMsg
HandleWindowSize(mm, env) ==
    LET m1 == [mm EXCEPT !.ready = TRUE]
        wiz == m1.wizardMode /\ m1.wizardStep > 0 /\ m1.modal = NoModal
        m2 == IF wiz THEN [m1 EXCEPT !.modal = getWizardModal(m1, env.cfg)] ELSE m1
        cs == IF wiz /\ m1.wizardStep = 1 THEN <<CheckPrerequisitesCmd>> ELSE <<>>
        m3 == IF ~m2.homeView.nil /\ m2.cachedCursorPos >= 0
              THEN [m2 EXCEPT !.homeView = SetCursor(m2.homeView, m2.cachedCursorPos, env.clamp),
                              !.cachedCursorPos = -1]
              ELSE m2
    IN Ret(m3, cs, "main")

\* the index (from 0) of the first entry named name, or -1
RECURSIVE IndexOfFrom(_, _, _)
IndexOfFrom(list, name, i) ==
    IF i > Len(list) THEN -1
    ELSE IF list[i] = name THEN i - 1
    ELSE IndexOfFrom(list, name, i + 1)

\* the search finds nothing
IndexOfNone(list, name) == -1

IndexOf(list, name) == IndexOfFrom(list, name, 1)

\* the loading flag is left as it was
ContainersLoadedKeepsLoading(mm, msg, env) ==
    Ret([mm EXCEPT !.homeView = NewHomeModel(msg.containers),
                   !.operationStatus = "Ready",
                   !.containerCount = Len(msg.containers),
                   !.ready = TRUE],
        <<>>, "main")

\* case containersLoadedMsg
HandleContainersLoaded(mm, msg, env) ==
    LET selectedContainerName == Selected(mm.homeView)
        hv0 == NewHomeModel(msg.containers)
        idx == IndexOf(msg.containers, selectedContainerName)
        hv1 == IF selectedContainerName # "" /\ idx >= 0
               THEN SetCursor(hv0, idx, env.clamp) ELSE hv0
        m1 == [mm EXCEPT !.homeView = hv1,
                         !.loading = FALSE,
                         !.operationStatus = "Ready",
                         !.containerCount = Len(msg.containers),
                         !.ready = TRUE]
    IN Ret(m1,
           IF mm.ready THEN <<>>
           ELSE <<NewAlertCmd("Success", <<"Loaded", Len(msg.containers), "containers">>)>>,
           "main")

\* every action, destructive or not, is run at once
handleContainerActionDirect(mm, msg) ==
    Ret([mm EXCEPT !.operationInProgress = TRUE, !.operationStatus = "Restarting..."],
        <<performDockerOperation(msg.Action, msg.ContainerName), OpSpinnerTickCmd>>, "main")

\* handleContainerAction
handleContainerAction(mm, msg) ==
    IF msg.Action \in {OperationStop, OperationDelete}
    THEN Ret([mm EXCEPT !.modal =
                 NewConfirmModal(<<"Confirm", msg.Action>>,
                                 <<"Are you sure you want to",
                                   IF msg.Action = OperationDelete THEN "remove" ELSE msg.Action,
                                   "container", msg.ContainerName>>,
                                 msg.Action, msg.ContainerName)],
             <<>>, "main")
    ELSE IF msg.Action = OperationRestart
    THEN Ret([mm EXCEPT !.operationInProgress = TRUE, !.operationStatus = "Restarting..."],
             <<NewAlertCmd("Info", <<"Restarting container", msg.ContainerName>>),
               performDockerOperation(msg.Action, msg.ContainerName),
               OpSpinnerTickCmd>>, "main")
    ELSE IF msg.Action = OperationRefreshTokens
    THEN Ret([mm EXCEPT !.operationInProgress = TRUE,
                        !.operationStatus = "Refreshing tokens..."],
             <<NewAlertCmd("Info", <<"Refreshing tokens for", msg.ContainerName>>),
               performDockerOperation(msg.Action, msg.ContainerName),
               OpSpinnerTickCmd>>, "main")
    ELSE Ret([mm EXCEPT !.modal = NewErrorModal("Error", <<"Unknown action:", msg.Action>>)],
             <<>>, "main")

\* case ConfirmActionMsg
HandleConfirmAction(mm, msg) ==
    LET m1 == [mm EXCEPT !.operationInProgress = TRUE,
                         !.operationStatus =
                             IF msg.Action = OperationDelete THEN "Deleting..."
                             ELSE IF msg.Action = OperationStop THEN "Stopping..."
                             ELSE mm.operationStatus]
    IN Ret(m1, <<performDockerOperation(msg.Action, msg.ContainerName), OpSpinnerTickCmd>>,
           "main")

actionVerb(action) ==
    IF action = OperationDelete THEN "removed"
    ELSE IF action = OperationStop THEN "stopped"
    ELSE IF action = OperationRestart THEN "restarted"
    ELSE IF action = OperationRefreshTokens THEN "tokens refreshed for"
    ELSE action

\* the result is dropped
DockerOperationResultDropped(mm, msg) == Ret(mm, <<>>, "main")

\* a failure is treated like a success
DockerOperationResultAlwaysReloads(mm, msg) ==
    Ret([mm EXCEPT !.operationInProgress = FALSE, !.operationStatus = "Syncing..."],
        <<NewAlertCmd("Success", <<"Container", msg.containerName, actionVerb(msg.action)>>),
          LoadContainersCmd>>, "main")

\* case dockerOperationResult
HandleDockerOperationResult(mm, msg) ==
    LET m1 == [mm EXCEPT !.operationInProgress = FALSE]
    IN IF msg.success
       THEN Ret([m1 EXCEPT !.operationStatus = "Syncing..."],
                <<NewAlertCmd("Success",
                              <<"Container", msg.containerName, actionVerb(msg.action)>>),
                  LoadContainersCmd>>, "main")
       ELSE Ret([m1 EXCEPT !.operationStatus = "Ready",
                           !.modal = NewErrorModal("Operation Failed",
                               <<"Failed to", msg.action, "container", msg.containerName,
                                 msg.err>>)],
                <<>>, "main")

\* routing of a message no case returned on: to the home view, if there is one
RouteToHome(mm, msg) ==
    IF mm.homeView.nil THEN Ret(mm, <<>>, "home")
    ELSE LET h == HomeUpdate(mm.homeView, msg)
         IN Ret([mm EXCEPT !.homeView = h.hv], h.cmds, "home")

\* case tea.KeyMsg (main view)
HandleKey(mm, msg, env) ==
    IF mm.wizardMode /\ mm.animationComplete /\ mm.wizardStep = 0 /\ msg.key = "enter"
    THEN Ret([mm EXCEPT !.wizardStep = 1, !.modal = createPrerequisiteCheckModal],
             <<CheckPrerequisitesCmd>>, "main")
    ELSE IF msg.key \in {"q", "ctrl+c"}
    THEN Ret([mm EXCEPT !.result = TUIResult("quit", "")], <<QuitCmd>>, "main")
    ELSE IF msg.key = "?"
    THEN Ret(IF ~mm.wizardMode THEN [mm EXCEPT !.modal = createHelpModal] ELSE mm,
             <<>>, "main")
    ELSE IF msg.key = "i"
    THEN Ret(IF Selected(mm.homeView) # ""
             THEN [mm EXCEPT !.modal =
                      IF env.detailsOk
                      THEN createContainerDetailsModal(Selected(mm.homeView))
                      ELSE NewErrorModal("Error", <<"Failed to fetch container details:">>)]
             ELSE mm,
             <<>>, "main")
    ELSE IF msg.key = "n"
    THEN Ret([mm EXCEPT !.modal = createContainerCreateModal], <<>>, "main")
    ELSE IF msg.key = "s"
    THEN Ret([mm EXCEPT !.modal = createSettingsModal], <<>>, "main")
    ELSE IF msg.key = "f"
    THEN Ret([mm EXCEPT !.modal = createFirewallModal], <<>>, "main")
    ELSE RouteToHome(mm, msg)

\* case saveSettingsMsg
HandleSaveSettings(mm, env) ==
    RetCfg([mm EXCEPT !.modal = NoModal],
           IF env.writeOk THEN <<NewAlertCmd("Success", <<"Settings saved successfully">>)>>
           ELSE <<NewAlertCmd("Error", <<"Failed to save settings:">>)>>,
           "main", WriteConfig(env.cfg, env.writeOk))

\* case saveFirewallMsg
HandleSaveFirewall(mm, env) ==
    RetCfg([mm EXCEPT !.modal = NoModal],
           IF ~env.writeOk THEN <<NewAlertCmd("Error", <<"Failed to save firewall:">>)>>
           ELSE IF env.added
                THEN <<GoAddDomains,
                       NewAlertCmd("Info", <<"Firewall saved. Adding new domain(s)">>)>>
                ELSE <<NewAlertCmd("Success", <<"Firewall configuration saved">>)>>,
           "main", WriteConfig(env.cfg, env.writeOk))

\* the second switch of Update: reached only when no modal is active
MainSwitch(mm, msg, env) ==
    CASE msg.type = "WindowSizeMsg" -> HandleWindowSize(mm, env)
      [] msg.type = "containersLoadedMsg" -> HandleContainersLoaded(mm, msg, env)
      [] msg.type = "ConnectRequestMsg" ->
            Ret([mm EXCEPT !.result = TUIResult("connect", msg.ContainerName)],
                <<QuitCmd>>, "main")
      [] msg.type = "ShowActionsMenuMsg" ->
            Ret([mm EXCEPT !.modal = createActionsModal(msg.Container)], <<>>, "main")
      [] msg.type = "createContainerMsg" ->
            Ret([mm EXCEPT !.result = TUIResult("create", "")], <<QuitCmd>>, "main")
      [] msg.type = "saveSettingsMsg" -> HandleSaveSettings(mm, env)
      [] msg.type = "saveFirewallMsg" -> HandleSaveFirewall(mm, env)
      [] msg.type = "ContainerActionMsg" -> handleContainerAction(mm, msg)
      [] msg.type = "ConfirmActionMsg" -> HandleConfirmAction(mm, msg)
      [] msg.type = "dockerOperationResult" -> HandleDockerOperationResult(mm, msg)
      [] msg.type = "KeyMsg" -> HandleKey(mm, msg, env)
      [] OTHER -> RouteToHome(mm, msg)

\* the modal priority check is missing
ModalPriorityNone(mm, msg, env) == MainSwitch(mm, msg, env)

\* "If modal is active, it gets priority": every message that reaches this point
\* while a modal is active goes to the modal and nowhere else
ModalPriority(mm, msg, env) ==
    IF mm.modal # NoModal
    THEN LET u == ModalUpdate(mm.modal, msg)
         IN Ret([mm EXCEPT !.modal = u.modal], u.cmds, "modal")
    ELSE MainSwitch(mm, msg, env)

\* the wizard's quit check is missing
WizardQuitNever(mm, msg) == FALSE

\* "Check for 'q' to quit even when modal is active (only in wizard mode)"
WizardQuit(mm, msg) ==
    mm.wizardMode /\ msg.type = "KeyMsg" /\ msg.key \in {"q", "ctrl+c"}

\* Model.Update
Update(mm, msg, env) ==
    IF msg.type = "tickMsg" THEN HandleTick(mm)
    ELSE IF msg.type = "refreshTickMsg" THEN HandleRefreshTick(mm)
    ELSE IF msg.type = "wizardAnimationTickMsg" THEN HandleWizardAnimationTick(mm)
    ELSE IF msg.type = "exitWizardMsg" THEN HandleExitWizard(mm, env)
    ELSE IF msg.type = "wizardNextStepMsg" THEN HandleWizardNextStep(mm, env)
    ELSE IF msg.type = "wizardPrevStepMsg" THEN HandleWizardPrevStep(mm, env)
    ELSE IF msg.type = "updateWizardConfigMsg" THEN HandleUpdateWizardConfig(mm, msg, env)
    ELSE IF msg.type = "prerequisiteCheckResult" THEN HandlePrerequisiteCheckResult(mm, msg)
    ELSE IF msg.type = "saveWizardConfigMsg" THEN HandleSaveWizardConfig(mm, msg, env)
    ELSE IF WizardQuit(mm, msg)
    THEN Ret([mm EXCEPT !.result = TUIResult("quit", "")], <<QuitCmd>>, "wizardquit")
    ELSE ModalPriority(mm, msg, env)

----------------------------------------------------------------------------
(* Package daemon: the background monitor and its PID file. Time is counted  *)
(* in minutes, and every clock reading of one check cycle is the same        *)
(* minute.                                                                   *)

RateLimit == 30            \* shouldNotify: 30*time.Minute
TokenCheckEvery == 5       \* checkTokenExpiry: 5*time.Minute
AttentionThreshold == 5    \* daemon.notifications.attention_threshold: "5m"
Never == -1                \* a nil *time.Time, and the zero time.Time

\* runDaemonBackground: the daemon.Config built from the default configuration,
\* with the given check interval in minutes
DaemonConfig(interval) ==
    [CheckInterval |-> interval, NotificationsOn |-> TRUE,
     AttentionThreshold |-> AttentionThreshold,
     NotifyOn |-> {"attention_needed", "token_expiring"},
     QuietHoursStart |-> "", QuietHoursEnd |-> ""]

\* the ContainerState check creates for a container it has no state for
ContainerState(now) ==
    [LastActivity |-> now, AttentionStarted |-> Never, LastNotified |-> Never,
     LastTokenCheck |-> Never, NotificationSent |-> FALSE]

\* inRange: the wall clock is inside the configured quiet hours (isQuietHours
\* answers false when no quiet hours are configured)
shouldNotify(config, notifyType, state, now, inRange) ==
    /\ config.NotificationsOn
    /\ notifyType \in config.NotifyOn
    /\ ~(config.QuietHoursStart # "" /\ config.QuietHoursEnd # "" /\ inRange)
    /\ ~(state.LastNotified # Never /\ now - state.LastNotified < RateLimit)

\* creds: "none" when the credentials cannot be copied or read, "expiring" when
\* they expire within the token threshold, "fresh" otherwise; refreshToken always
\* returns the error "token refresh not yet implemented"
checkTokenExpiry(config, state, now, creds, inRange) ==
    IF state.LastTokenCheck # Never /\ now - state.LastTokenCheck < TokenCheckEvery
    THEN [state |-> state, sent |-> <<>>]
    ELSE LET s1 == [state EXCEPT !.LastTokenCheck = now]
         IN  IF creds = "expiring"
                /\ shouldNotify(config, "token_expiring", s1, now, inRange)
             THEN [state |-> [s1 EXCEPT !.LastNotified = now],
                   sent |-> <<"token_expiring">>]
             ELSE [state |-> s1, sent |-> <<>>]

\* needsAttention: what checkBellStatus reports
checkAttentionStatus(config, state, now, needsAttention, inRange) ==
    IF needsAttention
    THEN LET s1 == IF state.AttentionStarted = Never
                   THEN [state EXCEPT !.AttentionStarted = now,
                                      !.NotificationSent = FALSE]
                   ELSE state
         IN  IF /\ ~s1.NotificationSent
                /\ now - s1.AttentionStarted >= config.AttentionThreshold
                /\ shouldNotify(config, "attention_needed", s1, now, inRange)
             THEN [state |-> [s1 EXCEPT !.NotificationSent = TRUE,
                                        !.LastNotified = now],
                   sent |-> <<"attention_needed">>]
             ELSE [state |-> s1, sent |-> <<>>]
    ELSE [state |-> [state EXCEPT !.AttentionStarted = Never,
                                  !.NotificationSent = FALSE],
          sent |-> <<>>]

\* containerStates is a map: its DOMAIN holds the containers that have a state
cleanupStates(containerStates, activeContainers) ==
    [c \in (DOMAIN containerStates) \cap activeContainers |-> containerStates[c]]

\* one monitoring cycle; env is what docker and the wall clock answer: whether the
\* listing failed, the running containers, their credentials and bell flags
check(d, env) ==
    IF env.err THEN d
    ELSE LET state(c) == IF c \in DOMAIN d.containerStates THEN d.containerStates[c]
                         ELSE ContainerState(d.now)
             t(c) == checkTokenExpiry(d.config, state(c), d.now, env.creds[c],
                                      env.quiet)
             a(c) == checkAttentionStatus(d.config, t(c).state, d.now,
                                          c \in env.bell, env.quiet)
             sent(c) == t(c).sent \o a(c).sent
             checked == [c \in (DOMAIN d.containerStates) \cup env.running |->
                            IF c \in env.running THEN a(c).state
                            ELSE d.containerStates[c]]
         IN  [d EXCEPT
                !.containerStates = cleanupStates(checked, env.running),
                !.sent = [c \in Names |->
                            IF c \in env.running
                            THEN d.sent[c] \o [i \in 1..Len(sent(c)) |->
                                                 [at |-> d.now, type |-> sent(c)[i]]]
                            ELSE d.sent[c]]]

\* no daemon object: the daemon process has not been started
NotStarted == [nil |-> TRUE]

\* daemon.New, with the clock at 0 and nothing sent
New(config) ==
    [nil |-> FALSE, config |-> config, now |-> 0, containerStates |-> <<>>,
     sent |-> [c \in Names |-> <<>>]]

NoPid == 0                 \* isDaemonRunning: the PID file cannot be read
Starters == {"daemon start", "EnsureDaemonRunning"}

\* no PID file, no daemon process, no start request under way
NoDaemon ==
    [pidFile |-> NoPid, alive |-> {}, wrote |-> {}, nextPid |-> 1,
     pc |-> [s \in Starters |-> "idle"], said |-> [s \in Starters |-> ""]]

\* the PID file names a process and signal 0 reaches it
isDaemonRunning(h) == h.pidFile # NoPid /\ h.pidFile \in h.alive

\* Daemon.Start's first statement, run by process pid
writePID(h, pid) == [h EXCEPT !.pidFile = pid, !.wrote = @ \cup {pid}]

----------------------------------------------------------------------------
(* Construction *)

NoCache == [nil |-> TRUE, Containers |-> <<>>, CursorPos |-> -1]

\* Model.GetState
GetState(mm) ==
    IF mm.homeView.nil THEN NoCache
    ELSE [nil |-> FALSE, Containers |-> mm.homeView.containers,
          CursorPos |-> mm.homeView.cursor]

\* NewWithCache: wizard mode when isFirstRun(), else normal mode with the cache
NewWithCache(cached, c) ==
    LET useCache == ~cached.nil /\ Len(cached.Containers) > 0
        wizard == isFirstRun(c)
        resumingAfterAuth == c.viper.resume
    IN [homeView |-> IF ~wizard /\ useCache THEN NewHomeModel(cached.Containers)
                     ELSE NilHomeView,
        modal |-> NoModal,
        cachedCursorPos |-> IF wizard THEN 0
                            ELSE IF useCache THEN cached.CursorPos ELSE -1,
        ready |-> ~wizard /\ useCache,
        loading |-> ~wizard /\ (cached.nil \/ Len(cached.Containers) = 0),
        operationStatus |-> "Ready",
        operationInProgress |-> FALSE,
        containerCount |-> 0,
        result |-> NoResult,
        wizardMode |-> wizard,
        wizardStep |-> IF wizard /\ resumingAfterAuth THEN 3 ELSE 0,
        animationFrame |-> 0,
        animationColumn |-> 0,
        animationComplete |-> wizard /\ resumingAfterAuth,
        wizardMemory |-> IF ~wizard THEN "" ELSE IF c.viper.memory = "" THEN "4g"
                         ELSE c.viper.memory,
        wizardCPUs |-> IF ~wizard THEN "" ELSE IF c.viper.cpus = "" THEN "2"
                       ELSE c.viper.cpus,
        wizardDomains |-> IF ~wizard THEN <<>> ELSE IF Len(c.viper.domains) = 0
                          THEN DefaultDomains ELSE c.viper.domains,
        wizardRunAuthNow |-> FALSE]

\* Model.Init
InitCmds(mm) ==
    IF mm.wizardMode
    THEN (IF mm.animationComplete THEN <<>> ELSE <<WizardAnimationTickCmd>>)
    ELSE <<LoadContainersCmd>> \o (IF mm.loading THEN <<SpinnerTickCmd>> ELSE <<>>)
             \o <<AnimationTickCmd, RefreshTickCmd>>

----------------------------------------------------------------------------
(* The Bubble Tea runtime: commands run concurrently and their messages are  *)
(* handled one at a time, in whatever order they arrive. The container       *)
(* runtime is shared with other processes (maestro new, the daemon, docker), *)
(* so an enumeration may return any list and an operation may fail.          *)

Count(cs, kind) == Cardinality({i \in DOMAIN cs : cs[i].c = kind})

IsOpCmd(c)   == c.c = "performDockerOperation"
IsEmitCmd(c) == c.c = "emit"

OpTask(c) == [action |-> c.action, containerName |-> c.containerName]

\* the tasks and messages the commands of a batch start
NewOps(cs) == LET s == SelectSeq(cs, IsOpCmd) IN [i \in 1..Len(s) |-> OpTask(s[i])]
NewUI(cs) == LET s == SelectSeq(cs, IsEmitCmd) IN [i \in 1..Len(s) |-> s[i].msg]

Remove(s, i) == SubSeq(s, 1, i - 1) \o SubSeq(s, i + 1, Len(s))

\* a configuration a user has customised, and the same after "Run Auth Now"
Custom == Settings("8g", "4", <<"example.com">>, FALSE)
Resuming == Settings("8g", "4", <<"example.com">>, TRUE)

\* an installation that is set up: config file and credentials exist
NormalCfg == Config(Custom, TRUE, Custom, TRUE)

\* the configurations a run can start from: no config file, or a file with or
\* without the resume flag; credentials or not
Configs ==
    {Config(Unset, FALSE, Unset, cr) : cr \in BOOLEAN}
        \cup {Config(v, TRUE, v, cr) : v \in {Custom, Resuming}, cr \in BOOLEAN}

FirstRunConfigs == {c \in Configs : isFirstRun(c)}

DefaultEnv ==
    [clamp |-> FALSE, detailsOk |-> TRUE, writeOk |-> TRUE, added |-> FALSE,
     cfg |-> NormalCfg]

Keys == {"up", "down", "enter", "a", "i", "n", "s", "f", "?", "q", "esc",
         "c", "r", "d", "t", "y", "ctrl+s"}

\* the keys that act in wizard mode: the wizard's actions, quit, Esc, and the
\* main-view keys
WizardKeys == {"enter", "b", "s", "a", "q", "esc", "n", "?", "ctrl+s"}

\* Bookkeeping of two enumerations outstanding together, both of which succeed and
\* reach the list-loaded case: "two" while both are outstanding, "one" once the
\* handler has taken one list, "done" in the state in which it has taken both,
\* "none" otherwise.
OverlapAfter(ov, msg, route, failed) ==
    IF msg.type = "containersLoadedMsg" /\ route = "main" /\ ~failed /\ ov = "two"
    THEN "one"
    ELSE IF msg.type = "containersLoadedMsg" /\ route = "main" /\ ~failed /\ ov = "one"
    THEN "done"
    ELSE IF msg.type = "containersLoadedMsg" \/ ov = "done" THEN "none"
    ELSE ov

\* what `last` keeps of a message: all of it, but only the type of a key press and
\* of a message the modal took
Seen(msg, route) ==
    IF msg.type = "KeyMsg" \/ route = "modal" THEN [type |-> msg.type] ELSE msg

\* One call of Update on msg, and the start of the commands it returns. L, O, U, T,
\* K, A are what is outstanding once msg is taken out; failed: msg comes from a task
\* that failed; newest: msg is the list of the later of two overlapping enumerations.
\* last.restored is the cached cursor position the call passed to SetCursor, if any;
\* last.initial: the call handled the list of the run's initial enumeration (the
\* loading flag, set at a start without cache and on leaving the wizard, was on).
StepW(msg, failed, newest, env, L, O, U, T, K, A, cap) ==
    \E r \in {Update(m, msg, [env EXCEPT !.cfg = cfg])} :
    \E nl \in {Count(r.cmds, "loadContainers")} :
       /\ m.result = NoResult
       /\ L + nl <= MaxLoads
       /\ Len(O) + Count(r.cmds, "performDockerOperation") <= MaxOps
       /\ Len(U) + Count(r.cmds, "emit") <= cap
       /\ K + Count(r.cmds, "checkPrerequisites") <= MaxChecks
       /\ r.m.wizardStep <= MaxStep
       /\ cfg' = IF "cfg" \in DOMAIN r THEN r.cfg ELSE cfg
       /\ checks' = K + Count(r.cmds, "checkPrerequisites")
       /\ wizTicks' = A + Count(r.cmds, "wizardAnimationTick")
       /\ animTicks' = animTicks - (IF msg.type = "tickMsg" THEN 1 ELSE 0)
                           + Count(r.cmds, "animationTick")
       /\ UNCHANGED <<daemon, host>>
       /\ m' = r.m
       /\ cmds' = r.cmds
       /\ last' = [msg |-> Seen(msg, r.route), route |-> r.route, failed |-> failed,
                   restored |-> IF msg.type = "WindowSizeMsg" /\ ~m.homeView.nil
                                   /\ r.route = "main"
                                THEN m.cachedCursorPos ELSE -1,
                   initial |-> msg.type = "containersLoadedMsg" /\ r.route = "main"
                                  /\ m.loading]
       /\ loads' = L + nl
       /\ ops' = O \o NewOps(r.cmds)
       /\ ui' = U \o NewUI(r.cmds)
       /\ refreshTicks' = T + Count(r.cmds, "refreshTick")
       /\ overlap' = IF nl > 0 THEN (IF L = 1 THEN "two" ELSE "none")
                     ELSE OverlapAfter(overlap, msg, r.route, failed)
       /\ newestOut' = IF nl > 0 THEN overlap' = "two"
                       ELSE overlap' \in {"two", "one"} /\ newestOut /\ ~newest
       /\ newestRes' = IF nl > 0 \/ overlap' = "none" THEN <<>>
                       ELSE IF newest THEN msg.containers
                       ELSE newestRes

Step(msg, failed, newest, env, L, O, U, T) ==
    StepW(msg, failed, newest, env, L, O, U, T, checks, wizTicks, MaxUI)

\* the user presses a key; the message of a modal action or home-view request that
\* was just returned is handled before the terminal's next input
KeyPress ==
    \E k \in Keys, detailsOk \in BOOLEAN :
        /\ ui = <<>>
        /\ ~detailsOk => k = "i"
        /\ Step([type |-> "KeyMsg", key |-> k], FALSE, FALSE,
                [DefaultEnv EXCEPT !.detailsOk = detailsOk],
                loads, ops, ui, refreshTicks)

\* the terminal reports its size
Resize ==
    \E clamp \in BOOLEAN :
        /\ ui = <<>>
        /\ Step([type |-> "WindowSizeMsg"], FALSE, FALSE,
                [DefaultEnv EXCEPT !.clamp = clamp], loads, ops, ui, refreshTicks)

\* the 30 s refresh timer fires
RefreshTick ==
    /\ refreshTicks > 0
    /\ Step([type |-> "refreshTickMsg"], FALSE, FALSE, DefaultEnv,
            loads, ops, ui, refreshTicks - 1)

\* a loadContainers command completes and its containersLoadedMsg arrives
DeliverContainersLoaded ==
    \E S \in SUBSET Names, ok \in BOOLEAN, newest \in BOOLEAN :
        /\ loads > 0
        /\ ~ok => S = {}
        /\ newest => newestOut
        /\ ~newest => loads > (IF newestOut THEN 1 ELSE 0)
        /\ Step(loadContainers(S, ok), ~ok, newest, DefaultEnv,
                loads - 1, ops, ui, refreshTicks)

\* a performDockerOperation command completes and its dockerOperationResult arrives
DeliverOperationResult ==
    \E i \in DOMAIN ops, err \in Errors \cup {""} :
        Step(dockerOperationResult(ops[i].action, ops[i].containerName, err),
             err # "", FALSE, DefaultEnv, loads, Remove(ops, i), ui, refreshTicks)

\* a message returned by a modal action or by the home view arrives
DeliverUI ==
    \E i \in DOMAIN ui, writeOk \in BOOLEAN, added \in BOOLEAN :
        /\ ~writeOk => ui[i].type \in {"saveSettingsMsg", "saveFirewallMsg"}
        /\ added => ui[i].type = "saveFirewallMsg"
        /\ Step(ui[i], ~writeOk, FALSE,
                [DefaultEnv EXCEPT !.writeOk = writeOk, !.added = added],
                loads, ops, Remove(ui, i), refreshTicks)

InitLast ==
    [msg |-> [type |-> "init"], route |-> "init", failed |-> FALSE, restored |-> -1,
     initial |-> FALSE]

\* the state of a freshly constructed controller whose Init commands were started
Started(cached, c) ==
    /\ cfg = c
    /\ checks = 0
    /\ m = NewWithCache(cached, c)
    /\ wizTicks = Count(InitCmds(m), "wizardAnimationTick")
    /\ animTicks = Count(InitCmds(m), "animationTick")
    /\ daemon = NotStarted
    /\ host = NoDaemon
    /\ loads = Count(InitCmds(m), "loadContainers")
    /\ ops = <<>>
    /\ ui = <<>>
    /\ refreshTicks = Count(InitCmds(m), "refreshTick")
    /\ cmds = InitCmds(m)
    /\ last = InitLast
    /\ newestOut = FALSE
    /\ newestRes = <<>>
    /\ overlap = "none"

\* rootCmd.Run: after a connect or create Result the TUI is run again with the state
\* the finished run exported
Reenter ==
    /\ m.result.Action \in {"connect", "create"}
    /\ ~m.wizardMode
    /\ cfg' = cfg
    /\ checks' = 0
    /\ m' = NewWithCache(GetState(m), cfg)
    /\ wizTicks' = Count(InitCmds(m'), "wizardAnimationTick")
    /\ animTicks' = Count(InitCmds(m'), "animationTick")
    /\ UNCHANGED <<daemon, host>>
    /\ loads' = Count(InitCmds(m'), "loadContainers")
    /\ ops' = <<>>
    /\ ui' = <<>>
    /\ refreshTicks' = Count(InitCmds(m'), "refreshTick")
    /\ cmds' = InitCmds(m')
    /\ last' = InitLast
    /\ newestOut' = FALSE
    /\ newestRes' = <<>>
    /\ overlap' = "none"

Init == Started(NoCache, NormalCfg)

Next ==
    \/ KeyPress
    \/ Resize
    \/ RefreshTick
    \/ DeliverContainersLoaded
    \/ DeliverOperationResult
    \/ DeliverUI
    \/ Reenter

Spec == Init /\ [][Next]_vars

\* Spec, with every scheduled task completing and every message and timer tick
\* delivered in the end; nothing is assumed about what the user does
LiveSpec ==
    /\ Init /\ [][Next]_vars
    /\ WF_vars(DeliverContainersLoaded)
    /\ WF_vars(DeliverOperationResult)
    /\ WF_vars(DeliverUI)
    /\ WF_vars(RefreshTick)
    /\ WF_vars(Reenter)

----------------------------------------------------------------------------
(* A run that starts in the first-run wizard, followed while it is in wizard *)
(* mode. Here the terminal's input is not held back while a modal action's   *)
(* message is on its way.                                                    *)

\* one call of Update in wizard mode; env.writeOk is false when msg makes its
\* handler write the configuration and the write fails
WizardStep(msg, env, U, K, A) ==
    /\ m.wizardMode
    /\ StepW(msg, ~env.writeOk, FALSE, env, loads, ops, U, refreshTicks, K, A,
             MaxWizardUI)

WizardKeyPress ==
    \E k \in WizardKeys :
        WizardStep([type |-> "KeyMsg", key |-> k], DefaultEnv, ui, checks, wizTicks)

WizardResize == WizardStep([type |-> "WindowSizeMsg"], DefaultEnv, ui, checks, wizTicks)

\* the 80 ms timer of the opening animation fires
WizardAnimationTick ==
    /\ wizTicks > 0
    /\ WizardStep([type |-> "wizardAnimationTickMsg"], DefaultEnv, ui, checks, wizTicks - 1)

\* a checkPrerequisites command completes and its prerequisiteCheckResult arrives:
\* both tools are there, or one of them is missing
DeliverPrerequisiteResult ==
    \E claudeAvailable \in BOOLEAN, dockerAvailable \in BOOLEAN :
        /\ checks > 0
        /\ claudeAvailable \/ dockerAvailable
        /\ WizardStep(prerequisiteCheckResult(claudeAvailable, dockerAvailable),
                      DefaultEnv, ui, checks - 1, wizTicks)

\* the messages whose handler writes the configuration
Saves == {"saveWizardConfigMsg", "exitWizardMsg", "saveSettingsMsg", "saveFirewallMsg"}

\* a message returned by a modal action arrives; a write of the configuration
\* succeeds or fails
WizardDeliverUI ==
    \E i \in DOMAIN ui, writeOk \in BOOLEAN :
        /\ ~writeOk => ui[i].type \in Saves
        /\ ~writeOk => (ui[i].type = "exitWizardMsg" => ~cfg.exists)
        /\ WizardStep(ui[i], [DefaultEnv EXCEPT !.writeOk = writeOk],
                      Remove(ui, i), checks, wizTicks)

\* rootCmd.Run: after a run-auth or create Result the external step runs (runAuth
\* may or may not leave credentials behind) and the TUI is constructed again
WizardReenter ==
    \E creds \in BOOLEAN :
        /\ m.wizardMode
        /\ m.result.Action \in {"runauth", "create"}
        /\ creds # cfg.creds => m.result.Action = "runauth" /\ creds
        /\ cfg' = [cfg EXCEPT !.creds = creds]
        /\ checks' = 0
        /\ m' = NewWithCache(GetState(m), cfg')
        /\ wizTicks' = Count(InitCmds(m'), "wizardAnimationTick")
        /\ animTicks' = Count(InitCmds(m'), "animationTick")
        /\ UNCHANGED <<daemon, host>>
        /\ loads' = Count(InitCmds(m'), "loadContainers")
        /\ ops' = <<>>
        /\ ui' = <<>>
        /\ refreshTicks' = Count(InitCmds(m'), "refreshTick")
        /\ cmds' = InitCmds(m')
        /\ last' = InitLast
        /\ newestOut' = FALSE
        /\ newestRes' = <<>>
        /\ overlap' = "none"

WizardInit == \E c \in FirstRunConfigs : Started(NoCache, c)

WizardNext ==
    \/ WizardKeyPress
    \/ WizardResize
    \/ WizardAnimationTick
    \/ DeliverPrerequisiteResult
    \/ WizardDeliverUI
    \/ WizardReenter

WizardSpec == WizardInit /\ [][WizardNext]_vars

----------------------------------------------------------------------------
(* A first run on a machine on which a required tool is missing: every       *)
(* prerequisite check of the run reports a failure.                          *)

\* first-run configurations without the resume flag: the wizard starts at step 0
FreshConfigs == {c \in FirstRunConfigs : ~c.viper.resume}

\* a checkPrerequisites command completes: Claude CLI, Docker or both are missing
DeliverFailedPrerequisiteResult ==
    \E claudeAvailable \in BOOLEAN, dockerAvailable \in BOOLEAN :
        /\ checks > 0
        /\ ~(claudeAvailable /\ dockerAvailable)
        /\ WizardStep(prerequisiteCheckResult(claudeAvailable, dockerAvailable),
                      DefaultEnv, ui, checks - 1, wizTicks)

MissingToolInit == \E c \in FreshConfigs : Started(NoCache, c)

MissingToolNext ==
    \/ WizardKeyPress
    \/ WizardResize
    \/ WizardAnimationTick
    \/ DeliverFailedPrerequisiteResult
    \/ WizardDeliverUI
    \/ WizardReenter

MissingToolSpec == MissingToolInit /\ [][MissingToolNext]_vars

----------------------------------------------------------------------------
(* The opening animation of a first run that is not resumed: the run is      *)
(* followed while it is at wizard step 0, and every 80 ms timer fires.       *)

AnimationNext ==
    \/ m.wizardStep = 0 /\ WizardKeyPress
    \/ m.wizardStep = 0 /\ WizardResize
    \/ m.wizardStep = 0 /\ WizardDeliverUI
    \/ WizardAnimationTick

AnimationSpec ==
    /\ MissingToolInit /\ [][AnimationNext]_vars
    /\ WF_vars(WizardAnimationTick)

----------------------------------------------------------------------------
(* A run with its tick chains: the 750 ms animation timer fires as well, and *)
(* a run that leaves the wizard is followed on in normal mode, with the      *)
(* messages that were in flight when it left and without further key         *)
(* presses. The user presses a few keys only; the run ends with its Result.  *)

\* Enter (continue, next, connect, dismiss), s (Skip Wizard, settings), Esc, and
\* a then r (actions menu, restart)
TickKeys == {"enter", "s", "esc", "a", "r"}

\* a fresh installation: no config file, credentials in place
FreshCfg == Config(Unset, FALSE, Unset, TRUE)

\* the 750 ms animation timer fires
AnimationTick ==
    /\ animTicks > 0
    /\ m.animationFrame < MaxFrames
    /\ StepW([type |-> "tickMsg"], FALSE, FALSE, DefaultEnv, loads, ops, ui, refreshTicks,
             checks, wizTicks, MaxWizardUI)

TickWizardKeyPress ==
    \E k \in TickKeys :
        WizardStep([type |-> "KeyMsg", key |-> k], DefaultEnv, ui, checks, wizTicks)

\* a key press in a run that was constructed in normal mode
TickKeyPress ==
    \E k \in TickKeys :
        /\ ~m.wizardMode /\ m.wizardMemory = ""
        /\ ui = <<>>
        /\ Step([type |-> "KeyMsg", key |-> k], FALSE, FALSE, DefaultEnv,
                loads, ops, ui, refreshTicks)

TickInit == \E c \in {NormalCfg, FreshCfg} : Started(NoCache, c)

TickNext ==
    \/ AnimationTick
    \/ RefreshTick
    \/ TickKeyPress
    \/ Resize
    \/ DeliverContainersLoaded
    \/ DeliverOperationResult
    \/ DeliverUI
    \/ TickWizardKeyPress
    \/ WizardResize
    \/ WizardAnimationTick
    \/ DeliverPrerequisiteResult
    \/ WizardDeliverUI

TickSpec == TickInit /\ [][TickNext]_vars

----------------------------------------------------------------------------
(* The daemon process: it is started once, runs its first check at once and  *)
(* then one check every CheckInterval, while docker answers anything.        *)

\* what docker and the wall clock can answer in one check cycle; a container that
\* is not running has neither credentials nor a bell flag
DaemonEnvs ==
    {e \in [err : {FALSE}, running : SUBSET Names,
            creds : [Names -> {"none", "fresh", "expiring"}],
            bell : SUBSET Names, quiet : BOOLEAN] :
        /\ e.bell \subseteq e.running
        /\ \A c \in Names \ e.running : e.creds[c] = "none"}
    \cup {[err |-> TRUE, running |-> {}, creds |-> [c \in Names |-> "none"],
           bell |-> {}, quiet |-> FALSE]}

\* runDaemonBackground: the process is launched, daemon.New, and Daemon.Start up to
\* its first check, with daemon.check_interval "10m" or the default "30m"
RunDaemon ==
    \E interval \in {10, 30}, env \in DaemonEnvs :
        /\ daemon.nil
        /\ daemon' = check(New(DaemonConfig(interval)), env)
        /\ host' = writePID([host EXCEPT !.alive = @ \cup {host.nextPid},
                                         !.nextPid = @ + 1],
                            host.nextPid)
        /\ UNCHANGED tuiVars

\* Daemon.Start: the ticker fires
CheckCycle ==
    \E env \in DaemonEnvs :
        /\ ~daemon.nil
        /\ daemon.now + daemon.config.CheckInterval <= MaxMinutes
        /\ daemon' = check([daemon EXCEPT !.now = @ + daemon.config.CheckInterval], env)
        /\ UNCHANGED <<host, tuiVars>>

NotifyNext == RunDaemon \/ CheckCycle

NotifySpec == Started(NoCache, NormalCfg) /\ [][NotifyNext]_vars

----------------------------------------------------------------------------
(* Starting the daemon: 'maestro daemon start' and EnsureDaemonRunning run   *)
(* concurrently with each other and with the daemon processes they launch.   *)
(* Only the PID file and the processes are followed here.                    *)

\* runDaemonStart and EnsureDaemonRunning, up to the isDaemonRunning test
RequestStart(s) ==
    /\ host.pc[s] = "idle"
    /\ host' = IF isDaemonRunning(host)
               THEN [host EXCEPT !.pc[s] = "returned", !.said[s] = "already running"]
               ELSE [host EXCEPT !.pc[s] = "starting"]
    /\ UNCHANGED <<daemon, tuiVars>>

\* runDaemonStart and EnsureDaemonRunning: daemonCmd.Start() and Release()
LaunchDaemon(s) ==
    \E ok \in BOOLEAN :
        /\ host.pc[s] = "starting"
        /\ host.nextPid <= MaxPids
        /\ host' = IF ~ok
                   THEN [host EXCEPT !.pc[s] = "returned", !.said[s] = "failed"]
                   ELSE [host EXCEPT
                           !.alive = @ \cup {host.nextPid},
                           !.nextPid = @ + 1,
                           !.pc[s] = IF s = "daemon start" THEN "sleeping"
                                     ELSE "returned"]
        /\ UNCHANGED <<daemon, tuiVars>>

\* runDaemonStart after its one-second sleep
ConfirmStart ==
    /\ host.pc["daemon start"] = "sleeping"
    /\ host' = [host EXCEPT !.pc["daemon start"] = "returned",
                            !.said["daemon start"] =
                                IF isDaemonRunning(host) THEN "started" ELSE "failed"]
    /\ UNCHANGED <<daemon, tuiVars>>

\* a launched process reaches Daemon.Start and writes the PID file
DaemonWritesPID ==
    \E pid \in host.alive \ host.wrote :
        /\ host' = writePID(host, pid)
        /\ UNCHANGED <<daemon, tuiVars>>

\* runDaemonStop: SIGTERM ends the process the PID file names; the file stays
StopDaemon ==
    /\ isDaemonRunning(host)
    /\ host' = [host EXCEPT !.alive = @ \ {host.pidFile}]
    /\ UNCHANGED <<daemon, tuiVars>>

\* the command is run again, the TUI is started again
NextRequest(s) ==
    /\ host.pc[s] = "returned"
    /\ host' = [host EXCEPT !.pc[s] = "idle", !.said[s] = ""]
    /\ UNCHANGED <<daemon, tuiVars>>

DaemonNext ==
    \/ \E s \in Starters : RequestStart(s)
    \/ \E s \in Starters : LaunchDaemon(s)
    \/ ConfirmStart
    \/ DaemonWritesPID
    \/ StopDaemon
    \/ \E s \in Starters : NextRequest(s)

DaemonSpec == Started(NoCache, NormalCfg) /\ [][DaemonNext]_vars

----------------------------------------------------------------------------
(* Either run: the controller is constructed in wizard mode or in normal     *)
(* mode, as isFirstRun decides, and its run is followed as above.            *)

\* the controller was constructed in normal mode (the wizard's answers were never
\* initialised) on the installation that is set up
NormalRun == ~m.wizardMode /\ m.wizardMemory = "" /\ cfg = NormalCfg

RunInit == \E c \in Configs : Started(NoCache, c)

RunNext ==
    \/ NormalRun /\ Next
    \/ WizardNext

RunSpec == RunInit /\ [][RunNext]_vars

----------------------------------------------------------------------------
(* The start of a run: the construction, from any configuration and with or  *)
(* without a snapshot, and the first message the new controller handles.     *)

\* every combination of what isFirstRun looks at
StartConfigs ==
    {WithFlags(Config(v, x, v, cr), a, b) :
        v \in {Custom, Resuming}, x \in BOOLEAN, cr \in BOOLEAN,
        a \in BOOLEAN, b \in BOOLEAN}

\* what rootCmd.Run passes to NewWithCache: nothing, or the state of the last run
Snapshots ==
    {NoCache,
     [nil |-> FALSE, Containers |-> <<>>, CursorPos |-> -1],
     [nil |-> FALSE, Containers |-> <<"x", "y">>, CursorPos |-> 1]}

StartInit == \E c \in StartConfigs, cached \in Snapshots : Started(cached, c)

\* the first message: a key, the terminal's size, the first tick, the list
StartNext ==
    \/ last.route = "init" /\ KeyPress
    \/ last.route = "init" /\ Resize
    \/ last.route = "init" /\ RefreshTick
    \/ last.route = "init" /\ WizardAnimationTick
    \/ last.route = "init" /\ DeliverContainersLoaded

StartSpec == StartInit /\ [][StartNext]_vars

----------------------------------------------------------------------------
(* Properties *)

HasCmd(cs, c) == \E i \in DOMAIN cs : cs[i] = c

Handled(type) == last.msg.type = type /\ last.route = "main"

InList(list, name) == \E i \in DOMAIN list : list[i] = name

BusyStatuses == {"Deleting...", "Stopping...", "Restarting...", "Refreshing tokens..."}

\* C1: every task-completion message delivered to the loop (list-loaded,
\* operation-result) is processed by its completion handler whether or not a modal
\* is active: an operation-result clears operationInProgress and, on success,
\* schedules a reload; no completion is taken by the modal.
C1_CompletionsReachTheirHandler ==
    last.msg.type \in {"containersLoadedMsg", "dockerOperationResult"} =>
        /\ last.route = "main"
        /\ last.msg.type = "dockerOperationResult" =>
              /\ ~m.operationInProgress
              /\ last.msg.success => HasCmd(cmds, LoadContainersCmd)

\* C1: a successful operation-result was delivered while a modal was active and the
\* operation is still marked in progress
C1_ResultTakenByModal ==
    /\ last.msg.type = "dockerOperationResult"
    /\ last.route = "modal"
    /\ ~last.failed
    /\ m.operationInProgress
    /\ m.operationStatus \in BusyStatuses

\* C2: when the dockerOperationResult case handles a result whose container is not
\* in the current session list, operationInProgress is false and the status is
\* "Syncing..." with a reload started (success) or "Ready" (failure), never one of
\* the busy statuses; and the list-loaded case sets the status to "Ready".
C2_StaleResultHandled ==
    /\ (Handled("dockerOperationResult")
          /\ ~InList(m.homeView.containers, last.msg.containerName)) =>
           /\ ~m.operationInProgress
           /\ m.operationStatus = IF last.msg.success THEN "Syncing..." ELSE "Ready"
           /\ m.operationStatus \notin BusyStatuses
           /\ last.msg.success => HasCmd(cmds, LoadContainersCmd) /\ loads > 0
    /\ Handled("containersLoadedMsg") => m.operationStatus = "Ready"

\* C2: a successful result was handled for a container that an earlier refresh had
\* removed from a non-empty list
C2_StaleResultSeen ==
    /\ Handled("dockerOperationResult")
    /\ last.msg.success
    /\ Len(m.homeView.containers) > 0
    /\ ~InList(m.homeView.containers, last.msg.containerName)

\* C3: once both list-loaded messages of two enumerations that were outstanding
\* together have been handled, the session list is the result of the enumeration
\* that was started last, whatever the order of arrival.
C3_LastStartedWins ==
    overlap = "done" => m.homeView.containers = newestRes

\* C4: after the list-loaded case has run, if the container selected before (by
\* name) is in the new list the cursor points at it; otherwise the cursor is 0, or
\* none for an empty list.
C4_CursorFollowsSelection ==
    [][(last'.msg.type = "containersLoadedMsg" /\ last'.route = "main") =>
         LET sel == Selected(m.homeView)
             list == last'.msg.containers
         IN /\ m'.homeView.containers = list
            /\ IF sel # "" /\ InList(list, sel)
               THEN /\ m'.homeView.cursor >= 0
                    /\ m'.homeView.cursor < Len(list)
                    /\ list[m'.homeView.cursor + 1] = sel
               ELSE m'.homeView.cursor = IF Len(list) = 0 THEN -1 ELSE 0]_vars

\* C4: a list-loaded message was handled and the cursor is not at the default
\* position: it followed the selected container
C4_CursorKept ==
    /\ Handled("containersLoadedMsg")
    /\ m.homeView.cursor > 0
    /\ Selected(m.homeView) # ""

ModalKinds ==
    {"error", "confirm", "help", "details", "create", "settings", "firewall", "actions",
     "wizard"}

\* a key press handled while a modal is active in normal mode goes to the modal: the
\* cursor does not move, no other modal opens, no Result is produced
KeyOwnedByModal ==
    (m.modal # NoModal /\ ~m.wizardMode /\ last'.msg.type = "KeyMsg") =>
        /\ last'.route = "modal"
        /\ m'.homeView = m.homeView
        /\ m'.modal \in {m.modal, NoModal}
        /\ m'.result = NoResult
        /\ ~HasCmd(cmds', QuitCmd)

\* C6: at most one modal is active in every reachable state, and while a modal is
\* active in normal mode it owns all keyboard input: no key press moves the cursor,
\* opens another modal through the main-view keys, or produces a Result.
C6_ModalOwnsKeys ==
    /\ [](m.modal = NoModal \/ m.modal.kind \in ModalKinds)
    /\ [][KeyOwnedByModal]_vars

\* C6: a key was pressed while a modal was active and the modal is still there
C6_KeyTakenByModal ==
    /\ last.msg.type = "KeyMsg"
    /\ last.route = "modal"
    /\ m.modal # NoModal
    /\ ~m.wizardMode

DeleteOp(x) == [action |-> OperationDelete, containerName |-> x]

\* a successful result of the delete of x is delivered in this step
DeleteSucceeds(x) ==
    /\ last'.msg.type = "dockerOperationResult"
    /\ ~last'.failed
    /\ \E i \in DOMAIN ops : ops[i] = DeleteOp(x) /\ ops' = Remove(ops, i)

\* C7: the delete flow of Scenario B, step by step: the Delete request for x opens
\* a Confirm modal; confirming sets "Deleting...", operationInProgress and starts
\* exactly one delete task for x; the successful completion emits the toast
\* "Container x removed", sets "Syncing..." and starts a reload; the reload's
\* list-loaded message sets "Ready"; no step is skipped.
C7_DeleteFlow ==
    [][\A x \in Names :
         /\ (last'.msg = ContainerActionMsg(OperationDelete, x) /\ last'.route = "main") =>
               /\ m'.modal.kind = "confirm"
               /\ m'.modal.action = OperationDelete
               /\ m'.modal.name = x
         /\ (last'.msg = ConfirmActionMsg(OperationDelete, x) /\ last'.route = "main") =>
               /\ m'.operationStatus = "Deleting..."
               /\ m'.operationInProgress
               /\ Count(cmds', "performDockerOperation") = 1
               /\ ops' = Append(ops, DeleteOp(x))
         /\ DeleteSucceeds(x) =>
               /\ HasCmd(cmds', NewAlertCmd("Success", <<"Container", x, "removed">>))
               /\ m'.operationStatus = "Syncing..."
               /\ loads' = loads + 1
         /\ (last'.msg.type = "containersLoadedMsg" /\ last'.route = "main") =>
               m'.operationStatus = "Ready"]_vars

\* C7: the delete succeeded and its result was delivered, yet the status still
\* reads "Deleting..." and no reload is outstanding
C7_DeleteResultLost ==
    /\ last.msg.type = "dockerOperationResult"
    /\ ~last.failed
    /\ m.operationStatus = "Deleting..."
    /\ ops = <<>>
    /\ loads = 0

Destructive == {OperationStop, OperationDelete}

\* C8: a Stop or Delete task for a container is started only by handling a
\* ConfirmActionMsg for that action and container; handling a ContainerActionMsg
\* with Stop or Delete only opens a Confirm modal, starts nothing and leaves the
\* status and operationInProgress alone; dismissing the Confirm modal changes
\* nothing but the modal.
C8_DestructiveOnlyWhenConfirmed ==
    [][/\ \A i \in DOMAIN cmds' :
             (cmds'[i].c = "performDockerOperation" /\ cmds'[i].action \in Destructive) =>
                 /\ last'.route = "main"
                 /\ last'.msg = ConfirmActionMsg(cmds'[i].action, cmds'[i].containerName)
       /\ (last'.msg.type = "ContainerActionMsg" /\ last'.route = "main"
             /\ last'.msg.Action \in Destructive) =>
                 /\ m'.modal.kind = "confirm"
                 /\ m'.modal.action = last'.msg.Action
                 /\ m'.modal.name = last'.msg.ContainerName
                 /\ m' = [m EXCEPT !.modal = m'.modal]
                 /\ cmds' = <<>>
                 /\ ops' = ops /\ loads' = loads
       /\ (m.modal.kind = "confirm" /\ last'.msg.type = "KeyMsg" /\ m'.modal = NoModal
             /\ ui' = ui) =>
                 /\ m' = [m EXCEPT !.modal = NoModal]
                 /\ cmds' = <<>>
                 /\ ops' = ops /\ loads' = loads]_vars

\* C8: a confirmation of a delete was handled and the delete task is outstanding
C8_ConfirmedDeleteStarted ==
    /\ Handled("ConfirmActionMsg")
    /\ last.msg.Action = OperationDelete
    /\ Len(ops) > 0
    /\ ops[Len(ops)] = DeleteOp(last.msg.ContainerName)

\* C9: when the dockerOperationResult case handles a failure, the status is
\* "Ready", operationInProgress is false, an error modal carries the action, the
\* container name and the error text, no reload is started, and the session list
\* and cursor are unchanged.
C9_FailedOperation ==
    [][(last'.msg.type = "dockerOperationResult" /\ last'.route = "main"
          /\ ~last'.msg.success) =>
            /\ m'.operationStatus = "Ready"
            /\ ~m'.operationInProgress
            /\ m'.modal.kind = "error"
            /\ InList(m'.modal.content, last'.msg.action)
            /\ InList(m'.modal.content, last'.msg.containerName)
            /\ InList(m'.modal.content, last'.msg.err)
            /\ ~HasCmd(cmds', LoadContainersCmd)
            /\ loads' = loads
            /\ m'.homeView = m.homeView]_vars

\* C9: a failed operation's result was handled and its error modal is on screen
C9_FailureShown ==
    /\ Handled("dockerOperationResult")
    /\ ~last.msg.success
    /\ last.msg.err \in Errors
    /\ m.modal.kind = "error"
    /\ m.modal.title = "Operation Failed"

\* C10: a failed enumeration leaves the last known session list and cursor
\* unchanged and surfaces no error.
C10_FailedEnumerationKeepsList ==
    [][(last'.msg.type = "containersLoadedMsg" /\ last'.failed) =>
            /\ m'.homeView.containers = m.homeView.containers
            /\ m'.homeView.cursor = m.homeView.cursor
            /\ m'.modal = m.modal]_vars

\* C11: a refresh tick handled while a modal is active or an operation is in
\* progress starts no enumeration, leaves the model (and so the status) unchanged
\* and reschedules exactly one refresh tick; handled with no modal and no operation
\* it sets the status to "Syncing..." and starts exactly one enumeration and exactly
\* one next refresh tick.
C11_RefreshTickGate ==
    [][last'.msg.type = "refreshTickMsg" =>
         IF m.modal # NoModal \/ m.operationInProgress
         THEN /\ m' = m
              /\ cmds' = <<RefreshTickCmd>>
              /\ loads' = loads
              /\ refreshTicks' = refreshTicks
         ELSE /\ m' = [m EXCEPT !.operationStatus = "Syncing..."]
              /\ Count(cmds', "loadContainers") = 1
              /\ Count(cmds', "refreshTick") = 1
              /\ Len(cmds') = 2
              /\ loads' = loads + 1
              /\ refreshTicks' = refreshTicks]_vars

\* C11: a refresh tick was handled while a modal was active with an operation in
\* progress: only the next tick was scheduled and the busy status stands
C11_TickSkippedReload ==
    /\ last.msg.type = "refreshTickMsg"
    /\ m.modal # NoModal
    /\ m.operationInProgress
    /\ m.operationStatus \in BusyStatuses
    /\ cmds = <<RefreshTickCmd>>

----------------------------------------------------------------------------
(* Properties of the wizard (WizardSpec) *)

\* the step this Update call moved the wizard by
StepDelta == m'.wizardStep - m.wizardStep

\* the step was placed by a construction of the model, not moved by a message
Constructed == last.route = "init"

\* C12: within a run, handling Next increases the wizard step by exactly 1; handling
\* Prev decreases it by exactly 1 when it is above 1 and leaves it unchanged otherwise;
\* no other message decreases it, and every other message leaves it or raises it by
\* 1; the only placement that is not a unit move is the construction of the model:
\* step 3 when the resume flag is set, step 0 otherwise.
C12_UnitSteps ==
    /\ [](Constructed => m.wizardStep = IF m.wizardMode /\ cfg.viper.resume THEN 3 ELSE 0)
    /\ [][last'.route # "init" =>
             CASE last'.msg.type = "wizardNextStepMsg" -> StepDelta = 1
               [] last'.msg.type = "wizardPrevStepMsg" ->
                      StepDelta = IF m.wizardStep > 1 THEN -1 ELSE 0
               [] OTHER -> StepDelta \in {0, 1}]_vars

\* C12: Back was selected on the Auth modal of a resumed run and Prev moved the
\* wizard from step 3 to step 2
C12_BackFromResume ==
    /\ last.msg.type = "wizardPrevStepMsg"
    /\ m.wizardStep = 2
    /\ cfg.viper.resume
    /\ m.modal = createWizardWelcomeModal

\* C13: in every reachable state the wizard step is in 0..6: no sequence of Next
\* (or config-update-and-advance) messages takes it above 6.
C13_StepInRange == m.wizardStep \in 0..6

\* the run was constructed with the resume flag set: only then is the animation
\* complete at column 0
Resumed == m.wizardMode /\ m.animationComplete /\ m.animationColumn = 0

\* C14: a run constructed with the resume flag set starts in wizard mode at step 3
\* with the animation complete, no modal and nothing scheduled; in that run no wizard
\* animation tick and no prerequisite check is ever scheduled and the step is never
\* 0 or 1; and a resize handled first creates the Authentication modal.
C14_ResumeAtAuth ==
    /\ []((Constructed /\ m.wizardMode /\ cfg.viper.resume) =>
             /\ Resumed
             /\ m.wizardStep = 3
             /\ m.modal = NoModal
             /\ cmds = <<>>)
    /\ [](Resumed =>
             /\ m.wizardStep \notin {0, 1}
             /\ wizTicks = 0 /\ checks = 0
             /\ ~HasCmd(cmds, WizardAnimationTickCmd)
             /\ ~HasCmd(cmds, CheckPrerequisitesCmd))
    /\ [][(Resumed /\ Constructed /\ last'.msg.type = "WindowSizeMsg") =>
             /\ m'.modal.title = "Authentication"
             /\ m'.wizardStep = 3]_vars

\* C14: in a resumed run the Authentication modal was created by the resize, Back
\* led to the Welcome modal, and the wizard is at step 2 with nothing scheduled
C14_ResumedBackToWelcome ==
    /\ Resumed
    /\ m.wizardStep = 2
    /\ m.modal = createWizardWelcomeModal
    /\ last.msg.type = "wizardPrevStepMsg"
    /\ checks = 0

\* no key selects an action of the modal
NoActions(modal) == \A k \in WizardKeys : OnSelect(modal, k) = NoMsg

\* this Update call brought the wizard to step 1, or created the modal of step 1
\* on a resize
EntersStepOne ==
    /\ last'.route # "init"
    /\ m'.wizardStep = 1
    /\ \/ m.wizardStep # 1
       \/ last'.msg.type = "WindowSizeMsg" /\ last'.route = "main" /\ m.modal = NoModal

\* C15: every transition that makes the wizard step 1 (Enter after the animation,
\* Next or Prev arriving at 1) or that creates the modal of step 1 on a resize
\* installs the "checking" placeholder, which has no actions, and schedules exactly
\* one prerequisite check in the same Update call.
C15_StepOneStartsCheck ==
    [][EntersStepOne =>
         /\ m'.modal = createPrerequisiteCheckModal
         /\ NoActions(m'.modal)
         /\ Count(cmds', "checkPrerequisites") = 1
         /\ checks' = checks + 1]_vars

\* C15: Enter after the complete animation brought the wizard to step 1: the
\* placeholder is up and one check is outstanding
C15_EnterAfterAnimation ==
    /\ last.msg.type = "KeyMsg"
    /\ last.route = "main"
    /\ m.wizardStep = 1
    /\ m.animationColumn = AnimationColumns
    /\ m.modal = createPrerequisiteCheckModal
    /\ checks = 1

\* the keys that select an action of the modal
ActionKeys(modal) == {k \in WizardKeys : OnSelect(modal, k) # NoMsg}

\* C16: handling a prerequisite-check result puts the results modal in the place of
\* the modal that was there (the step-1 placeholder); the results modal has exactly
\* one action: Continue, emitting Next, if and only if both the Claude CLI and
\* Docker were reported available, otherwise Exit; nothing else in the model
\* changes, in particular not the wizard step, and nothing is scheduled.
C16_ResultModal ==
    [][last'.msg.type = "prerequisiteCheckResult" =>
         LET allPassed == last'.msg.claudeAvailable /\ last'.msg.dockerAvailable
         IN /\ m' = [m EXCEPT !.modal = m'.modal]
            /\ m'.wizardStep = m.wizardStep
            /\ m'.modal.kind = "wizard"
            /\ m'.modal.title = "System Requirements"
            /\ m'.modal # createPrerequisiteCheckModal
            /\ m'.modal.action = IF allPassed THEN "Continue" ELSE "Exit"
            /\ ActionKeys(m'.modal) = {"enter"}
            /\ OnSelect(m'.modal, "enter") =
                  IF allPassed THEN [type |-> "wizardNextStepMsg"]
                  ELSE [type |-> "exitWizardMsg"]
            /\ cmds' = <<>>]_vars

\* C16: the check reported Docker missing while the wizard was on step 1: the
\* results modal offers Exit and the wizard is still on step 1
C16_ExitOffered ==
    /\ last.msg.type = "prerequisiteCheckResult"
    /\ last.msg.claudeAvailable
    /\ ~last.msg.dockerAvailable
    /\ m.wizardStep = 1
    /\ m.animationColumn = AnimationColumns
    /\ m.modal.action = "Exit"
    /\ checks = 0

\* the commands that start normal operation: one enumeration and the animation,
\* refresh and spinner ticks
StartsNormalOperation(cs) ==
    /\ Count(cs, "loadContainers") = 1
    /\ Count(cs, "animationTick") = 1
    /\ Count(cs, "refreshTick") = 1
    /\ Count(cs, "spinner.Tick") = 1

\* C17: handling Skip (exitWizardMsg) always exits the wizard: afterwards wizardMode
\* is false, no modal is active, loading is true, one enumeration and the animation,
\* refresh and spinner ticks are scheduled, and a config file exists; when none
\* existed, it holds the wizard's memory, CPU and domain values with the resume flag
\* off.
C17_SkipExits ==
    [][last'.msg.type = "exitWizardMsg" =>
         /\ ~m'.wizardMode
         /\ m'.modal = NoModal
         /\ m'.loading
         /\ StartsNormalOperation(cmds')
         /\ loads' = loads + 1
         /\ cfg'.exists
         /\ ~cfg.exists =>
               cfg'.file = Settings(m.wizardMemory, m.wizardCPUs, m.wizardDomains, FALSE)]_vars

\* C17: Skip was handled with no config file and the default configuration was
\* written: the wizard is left and normal operation starts
C17_SkippedWithDefaults ==
    /\ last.msg.type = "exitWizardMsg"
    /\ ~m.wizardMode
    /\ cfg.exists
    /\ cfg.file = Settings("4g", "2", DefaultDomains, FALSE)
    /\ loads = 1
    /\ refreshTicks = 1

\* the wizard's save message was handled in this Update call and its write of the
\* configuration succeeded
SavedWizardConfig == last'.msg.type = "saveWizardConfigMsg" /\ ~last'.failed

\* C18: when the wizard's save message is handled and the write succeeds, the
\* config file holds the memory, CPU and domain answers the message carries and a
\* resume flag equal to its auth-now flag; with the flag off the handler leaves
\* wizard mode, clears the modal, sets loading and schedules one enumeration
\* and the normal-mode ticks; with the flag on it produces the run-auth Result and
\* quits, changing nothing else: the model stays in wizard mode.
C18_WizardSave ==
    [][SavedWizardConfig =>
         LET msg == last'.msg
         IN /\ cfg'.exists
            /\ cfg'.file = Settings(msg.memory, msg.cpus, msg.domains, msg.runAuthNow)
            /\ IF msg.runAuthNow
               THEN /\ m' = [m EXCEPT !.result = TUIResult("runauth", "")]
                    /\ m'.wizardMode
                    /\ cmds' = <<QuitCmd>>
                    /\ loads' = loads
               ELSE /\ ~m'.wizardMode
                    /\ m'.modal = NoModal
                    /\ m'.loading
                    /\ m'.result = NoResult
                    /\ StartsNormalOperation(cmds')
                    /\ loads' = loads + 1]_vars

\* C18: "Run Auth Now" was selected on the Authentication modal of a first run and
\* the save succeeded: the answers are in the file with the resume flag on, and the
\* run ends with the run-auth Result while still in wizard mode
C18_RunAuthNowSaved ==
    /\ last.msg.type = "saveWizardConfigMsg"
    /\ last.msg.runAuthNow
    /\ m.result = TUIResult("runauth", "")
    /\ m.wizardMode
    /\ m.animationColumn = AnimationColumns
    /\ cfg.file = Settings("4g", "2", DefaultDomains, TRUE)

\* a handler that writes the configuration ran in this Update call and its write
\* failed
FailedSave ==
    /\ last'.msg.type \in Saves
    /\ last'.route \in {"main", "absorbed"}
    /\ last'.failed

\* C19: every failed write of the configuration (wizard save, the default
\* configuration written by Skip, settings save, firewall save) leaves an error
\* modal active when the handler returns, produces no Result and schedules no
\* enumeration; a failed wizard save leaves wizardMode and the wizard step as they
\* were.
C19_FailedSaveBlocks ==
    [][FailedSave =>
         /\ m'.modal.kind = "error"
         /\ m'.result = NoResult
         /\ ~HasCmd(cmds', LoadContainersCmd)
         /\ loads' = loads
         /\ m'.wizardMode = m.wizardMode
         /\ m'.wizardStep = m.wizardStep]_vars

\* C19: a settings save failed in normal mode: the modal is closed and only an
\* error toast tells of it
C19_FailureOnlyToasted ==
    /\ last.msg.type = "saveSettingsMsg"
    /\ last.route = "main"
    /\ last.failed
    /\ ~m.wizardMode
    /\ m.modal = NoModal
    /\ cmds = <<NewAlertCmd("Error", <<"Failed to save settings:">>)>>

MainViewModals == {"create", "settings", "firewall", "details", "help"}

\* C20: while wizardMode is true no normal-mode behaviour is active: no enumeration
\* and no refresh tick is scheduled or outstanding, no main-view modal (create,
\* settings, firewall, details, help) is open, and no connect or create Result has
\* been produced.
C20_ModesExclusive ==
    m.wizardMode =>
        /\ loads = 0
        /\ refreshTicks = 0
        /\ ~HasCmd(cmds, LoadContainersCmd)
        /\ ~HasCmd(cmds, RefreshTickCmd)
        /\ m.modal.kind \notin MainViewModals
        /\ m.result.Action \notin {"connect", "create"}

\* C20: the run ended with a create Result while in wizard mode, before the wizard
\* had shown its first modal
C20_CreateResultInWizard ==
    /\ m.wizardMode
    /\ m.wizardStep = 0
    /\ m.result.Action = "create"
    /\ last.msg.type = "createContainerMsg"

----------------------------------------------------------------------------
(* Properties of either run (RunSpec) *)

QuitKeys == {"q", "ctrl+c"}

KeyMsg(k) == [type |-> "KeyMsg", key |-> k]

QuitResult == TUIResult("quit", "")

\* C21: while wizardMode is true, handling a q or ctrl+c key press always sets the
\* quit Result and returns the quit command, at every wizard step and whether or
\* not a modal is active; while wizardMode is false and a modal is active, handling
\* q or ctrl+c sets no Result: the key goes to the modal.
C21_QuitKey ==
    \A k \in QuitKeys :
        \E r \in {Update(m, KeyMsg(k), [DefaultEnv EXCEPT !.cfg = cfg])} :
            /\ m.wizardMode => r.m.result = QuitResult /\ r.cmds = <<QuitCmd>>
            /\ (~m.wizardMode /\ m.modal # NoModal) =>
                   /\ r.m.result = m.result
                   /\ r.route = "modal"

\* C21: a quit key was pressed in wizard mode while a wizard modal was active, and
\* the run ended with the quit Result
C21_QuitUnderWizardModal ==
    /\ last.route = "wizardquit"
    /\ m.wizardMode
    /\ m.modal.kind = "wizard"
    /\ m.wizardStep >= 2
    /\ m.result = QuitResult
    /\ cmds = <<QuitCmd>>

ResultActions == {"quit", "connect", "create", "runauth"}

\* C22: an Update step returns the quit command if and only if it sets a Result;
\* such a step returns nothing but the quit command (no tick, no task), its Result's
\* action is quit, connect, create or run-auth, and a connect Result is set only by
\* a connect request and carries that request's container name.
C22_QuitIffResult ==
    [][last'.route # "init" =>
          /\ HasCmd(cmds', QuitCmd) <=> m'.result # m.result
          /\ HasCmd(cmds', QuitCmd) =>
                 /\ cmds' = <<QuitCmd>>
                 /\ m'.result.Action \in ResultActions
                 /\ loads' = loads /\ ops' = ops /\ ui' \in {ui} \cup {Remove(ui, i) : i \in DOMAIN ui}
                 /\ refreshTicks' <= refreshTicks /\ checks' <= checks /\ wizTicks' <= wizTicks
          /\ m'.result.Action = "connect" =>
                 /\ last'.msg.type = "ConnectRequestMsg"
                 /\ m'.result.ContainerName = last'.msg.ContainerName]_vars

\* C22: the connect request for the second container of the list ended the run with
\* a connect Result for that container
C22_ConnectSecond ==
    /\ last.msg.type = "ConnectRequestMsg"
    /\ last.route = "main"
    /\ m.homeView.cursor = 1
    /\ m.result.Action = "connect"
    /\ m.result.ContainerName = m.homeView.containers[2]
    /\ cmds = <<QuitCmd>>

----------------------------------------------------------------------------
(* Properties of the asynchronous operations *)

\* the asynchronous operations a handler starts
AsyncKinds == {"loadContainers", "performDockerOperation", "checkPrerequisites", "go"}

\* the message an asynchronous operation returns to the loop when it completes
Completion(c) ==
    CASE c.c = "loadContainers" -> "containersLoadedMsg"
      [] c.c = "performDockerOperation" -> "dockerOperationResult"
      [] c.c = "checkPrerequisites" -> "prerequisiteCheckResult"
      [] OTHER -> "none"

IfThen(b, n) == IF b THEN n ELSE 0

\* one Update step: the operations outstanding change by those the step started and
\* by the one whose completion message it handled, failed or not; a lifecycle
\* operation is started with the action and name of the request being handled, and
\* the result handled is that of an operation that was outstanding
CompletionsMatch ==
    last'.route # "init" =>
        /\ loads' = loads + Count(cmds', "loadContainers")
                       - IfThen(last'.msg.type = "containersLoadedMsg", 1)
        /\ Len(ops') = Len(ops) + Count(cmds', "performDockerOperation")
                          - IfThen(last'.msg.type = "dockerOperationResult", 1)
        /\ checks' = checks + Count(cmds', "checkPrerequisites")
                        - IfThen(last'.msg.type = "prerequisiteCheckResult", 1)
        /\ \A i \in DOMAIN cmds' :
               cmds'[i].c = "performDockerOperation" =>
                   /\ last'.msg.type \in {"ContainerActionMsg", "ConfirmActionMsg"}
                   /\ cmds'[i].action = last'.msg.Action
                   /\ cmds'[i].containerName = last'.msg.ContainerName
                   /\ ops'[Len(ops')] = OpTask(cmds'[i])
        /\ Handled("dockerOperationResult")' =>
               \E i \in DOMAIN ops :
                   /\ ops[i] = [action |-> last'.msg.action,
                                containerName |-> last'.msg.containerName]
                   /\ ops' = Remove(ops, i) \o NewOps(cmds')

\* C23: every asynchronous operation a handler starts (enumeration, lifecycle
\* operation, prerequisite check, applying added firewall domains to the running
\* containers) returns a completion message to the loop, exactly one, on success
\* and on failure; a lifecycle completion carries the action and container name of
\* the request that started it.
C23_OneCompletionEach ==
    /\ [](\A i \in DOMAIN cmds :
             cmds[i].c \in AsyncKinds => Completion(cmds[i]) # "none")
    /\ [][CompletionsMatch]_vars

\* C23: a firewall save started the goroutine that adds the new domains; no
\* operation is outstanding, so no message will report how it ended
C23_DomainsAppliedUnreported ==
    /\ last.msg.type = "saveFirewallMsg"
    /\ HasCmd(cmds, GoAddDomains)
    /\ m.modal = NoModal
    /\ loads = 0 /\ ops = <<>> /\ ui = <<>> /\ checks = 0

\* the messages that report the result of a scheduled task
TaskResults == {"containersLoadedMsg", "dockerOperationResult", "prerequisiteCheckResult"}

FailedDetailsModal == NewErrorModal("Error", <<"Failed to fetch container details:">>)

\* C24: the handler makes no registry call and no configuration write itself: what
\* such a call produces (a container's details or the failure to fetch them, a
\* changed configuration) appears only in a step that handles the result message of
\* a scheduled task, never in the step that handles the key press or the save
\* request.
C24_NoCallsInHandler ==
    [][(last'.route # "init" /\ last'.msg.type \notin TaskResults) =>
          /\ cfg' = cfg
          /\ m'.modal.kind = "details" => m.modal.kind = "details"
          /\ m'.modal = FailedDetailsModal => m.modal = FailedDetailsModal]_vars

\* C24: the step that handled the key press itself asked the runtime for the
\* container's details, and shows that the call failed
C24_DetailsFetchedInHandler ==
    /\ last.msg.type = "KeyMsg"
    /\ last.route = "main"
    /\ m.modal = FailedDetailsModal
    /\ cmds = <<>>
    /\ ~m.homeView.nil /\ Selected(m.homeView) # ""

\* what the world outside the controller may answer while one message is handled:
\* the container runtime (details), the config store (write) and the file system
\* (config file, credentials file)
Outcomes ==
    {[DefaultEnv EXCEPT !.detailsOk = d, !.writeOk = w,
                        !.cfg = [cfg EXCEPT !.exists = x, !.creds = cr]] :
        d \in BOOLEAN, w \in BOOLEAN, x \in BOOLEAN, cr \in BOOLEAN}

\* the messages the loop may hand to Update in the current state
Offered ==
    {KeyMsg(k) : k \in Keys \cup WizardKeys}
        \cup {ui[i] : i \in DOMAIN ui}
        \cup {[type |-> "WindowSizeMsg"]}

\* C25: the handler is deterministic in (state, message): from equal controller
\* states, handling an equal message gives equal states and equal scheduled tasks,
\* whatever the file system, the configuration store and the container runtime
\* answer.
C25_HandlerDeterministic ==
    \A msg \in Offered : \A e1 \in Outcomes, e2 \in Outcomes :
        /\ Update(m, msg, e1).m = Update(m, msg, e2).m
        /\ Update(m, msg, e1).cmds = Update(m, msg, e2).cmds

\* C25: a Skip is on its way in a wizard run, and what handling it gives depends on
\* the file system: the wizard is left if the config file exists, and kept, under
\* a warning, if it does not and cannot be written
C25_SkipDependsOnFileSystem ==
    /\ m.wizardMode /\ m.result = NoResult
    /\ \E i \in DOMAIN ui : ui[i].type = "exitWizardMsg"
    /\ \E e1 \in Outcomes, e2 \in Outcomes :
           /\ e1.writeOk = e2.writeOk
           /\ ~Update(m, [type |-> "exitWizardMsg"], e1).m.wizardMode
           /\ Update(m, [type |-> "exitWizardMsg"], e2).m.wizardMode

----------------------------------------------------------------------------
(* Properties of the session list and its snapshot *)

\* the initial empty session: no list yet, loading
EmptySession(mm) == mm.homeView.nil /\ mm.loading

\* C26: from the initial empty session (no list, loading), the list-loaded case
\* handling a successful enumeration of n >= 1 containers yields a session of
\* exactly those n entries with cursor 0, status "Ready", loading false and
\* container count n.
C26_FirstLoad ==
    [][(/\ EmptySession(m)
        /\ last'.msg.type = "containersLoadedMsg" /\ last'.route = "main"
        /\ ~last'.failed
        /\ Len(last'.msg.containers) >= 1) =>
          /\ ~m'.homeView.nil
          /\ m'.homeView.containers = last'.msg.containers
          /\ m'.homeView.cursor = 0
          /\ m'.operationStatus = "Ready"
          /\ ~m'.loading
          /\ m'.containerCount = Len(last'.msg.containers)]_vars

\* C26: the first enumeration returned two containers and the initial load was
\* announced
C26_FirstLoadOfTwo ==
    /\ last.msg.type = "containersLoadedMsg" /\ last.route = "main"
    /\ ~last.failed
    /\ HasCmd(cmds, NewAlertCmd("Success", <<"Loaded", 2, "containers">>))
    /\ m.homeView.containers = <<"x", "y">>
    /\ m.homeView.cursor = 0
    /\ m.containerCount = 2
    /\ m.operationStatus = "Ready" /\ ~m.loading

\* a resize message reached the WindowSizeMsg case in this step
ResizeHandled == last'.msg.type = "WindowSizeMsg" /\ last'.route = "main"

\* the snapshot (list L, cursor k) a run is constructed from, when it is non-empty
Snapshot(L, k) == [nil |-> FALSE, Containers |-> L, CursorPos |-> k]

----------------------------------------------------------------------------
(* Properties of the start of a run (StartSpec) *)

\* the first-run predicate: the always-run flag is set, or the resume flag is set,
\* or the config file is absent, or Bedrock is not enabled and the credentials
\* file is absent
FirstRunPredicate(c) ==
    c.alwaysRun \/ c.viper.resume \/ ~c.exists \/ (~c.bedrock /\ ~c.creds)

----------------------------------------------------------------------------
(* Properties of the status indicator *)

Busy == m.operationStatus # "Ready" \/ m.operationInProgress

Settled == m.operationStatus = "Ready" /\ ~m.operationInProgress

\* C29: when every task completes and every message is delivered, a running
\* controller whose status is not "Ready" or whose operationInProgress is true
\* eventually has status "Ready" and operationInProgress false (or the run ends
\* with a Result), whatever the user does.
C29_StatusSettles == Busy ~> (Settled \/ m.result # NoResult)

\* C29: nothing is outstanding or in flight and no modal is open, and an operation
\* still counts as in progress: no message that clears it will ever arrive
C29_StuckInProgress ==
    /\ m.operationInProgress
    /\ m.operationStatus \in BusyStatuses
    /\ m.result = NoResult
    /\ m.modal = NoModal
    /\ ops = <<>> /\ loads = 0 /\ ui = <<>>

\* C30: in every reachable state with a lifecycle task (stop, restart, delete,
\* refresh-tokens) outstanding, operationInProgress is true and the status is an
\* in-progress value, never "Ready"; also when the list of an earlier enumeration
\* arrives during the operation.
C30_StatusReflectsOperations ==
    ops # <<>> => m.operationInProgress /\ m.operationStatus # "Ready"

\* C30: the list of an earlier enumeration was handled while an operation was
\* outstanding, and the status went back to "Ready"
C30_ReadyDuringOperation ==
    /\ Handled("containersLoadedMsg")
    /\ ops # <<>>
    /\ m.operationInProgress
    /\ m.operationStatus = "Ready"
    /\ m.result = NoResult

----------------------------------------------------------------------------
(* Properties of the wizard's screens *)

\* C32: the wizard never shows a blank screen: in every reachable state in wizard
\* mode with wizard step >= 1 and a resize message already handled (m.ready), a
\* modal is active, also after the error modal of a failed save was dismissed.
C32_WizardModalShown ==
    (m.wizardMode /\ m.wizardStep >= 1 /\ m.ready /\ m.result = NoResult) =>
        m.modal # NoModal

\* C32: at the Completion step the save has failed (the answers are in viper but
\* not in the file), its error modal was dismissed, nothing is in flight, and no
\* modal is left
C32_BlankAfterErrorDismissed ==
    /\ m.wizardMode /\ m.wizardStep = 6 /\ m.ready
    /\ m.result = NoResult
    /\ m.modal = NoModal
    /\ last.msg.type = "KeyMsg" /\ last.route = "modal"
    /\ ui = <<>> /\ checks = 0
    /\ cfg.viper # cfg.file

\* the controller was constructed in wizard mode (the answers were initialised)
\* and has left it
AfterWizard == ~m.wizardMode /\ m.wizardMemory # ""

\* C34: once the wizard has been left through Skip or Finish the persisted resume
\* flag is false, so the next construction with config file and credentials
\* present is in normal mode; also when the wizard had been resumed after the
\* external authentication step and was then skipped.
C34_ResumeFlagCleared ==
    AfterWizard =>
        /\ ~cfg.file.resume /\ ~cfg.viper.resume
        /\ (cfg.exists /\ cfg.creds) => ~NewWithCache(GetState(m), cfg).wizardMode

\* C34: a resumed wizard was skipped; config file and credentials exist, the resume
\* flag is still set, and the next construction is the wizard at the Auth step
C34_SkippedStillResuming ==
    /\ AfterWizard
    /\ last.msg.type = "exitWizardMsg"
    /\ cfg.exists /\ cfg.creds
    /\ cfg.file.resume
    /\ NewWithCache(GetState(m), cfg).wizardMode
    /\ NewWithCache(GetState(m), cfg).wizardStep = 3

\* the Auth modal of step 3 is on screen
AuthModalShown == m.wizardMode /\ m.modal.kind = "wizard" /\ m.modal.title = "Authentication"

\* C35: the Auth step modal offers "Run Auth Now" if and only if the credentials do
\* not exist; when they exist, also in a wizard resumed after the external
\* authentication created them, it is the "already configured" variant with only
\* Next and Back.
C35_RunAuthIffNoCredentials ==
    AuthModalShown => (m.modal.action = "Run Auth Now" <=> ~cfg.creds)

\* C35: the wizard was resumed with the credentials in place and its Auth modal,
\* created by the first resize message, offers "Run Auth Now"
C35_RunAuthOfferedWithCredentials ==
    /\ AuthModalShown
    /\ last.msg.type = "WindowSizeMsg" /\ last.route = "main"
    /\ m.wizardStep = 3
    /\ cfg.creds /\ cfg.exists /\ cfg.viper.resume
    /\ m.modal.action = "Run Auth Now"
    /\ OnSelect(m.modal, "a") = saveWizardConfigMsg(Answers(m), TRUE)

----------------------------------------------------------------------------
(* Properties of the "Loaded N containers" toast *)

LoadedToast(cs) == \E i \in DOMAIN cs : cs[i].c = "toast" /\ cs[i].text[1] = "Loaded"

\* C36: the "Loaded N containers" toast is emitted when the list of the initial
\* enumeration is handled (the first list-loaded message after a start without
\* cache or after leaving the wizard) and for no later enumeration, whether the
\* first resize message is handled before or after that list.
C36_ToastForInitialLoadOnly ==
    (last.msg.type = "containersLoadedMsg" /\ last.route = "main") =>
        (LoadedToast(cmds) <=> last.initial)

\* C36: the first resize message was handled before the list of the initial
\* enumeration, and that list was then handled without a toast
C36_InitialLoadWithoutToast ==
    /\ last.msg.type = "containersLoadedMsg" /\ last.route = "main"
    /\ last.initial
    /\ ~last.failed
    /\ m.containerCount = Len(last.msg.containers)
    /\ Len(last.msg.containers) > 0
    /\ ~LoadedToast(cmds)
    /\ cmds = <<>>

----------------------------------------------------------------------------
(* Properties of the prerequisite gate (MissingToolSpec) *)

\* C33: in a first run that was not resumed the controller reaches wizard step 2 or
\* later, or normal mode, only after a prerequisite result with both tools
\* available was handled, and after a failed check it never enters normal mode,
\* schedules an enumeration or writes configuration. In a run in which every check
\* fails: a controller that was constructed in wizard mode (its answers were
\* initialised) stays in wizard mode below step 2, and no enumeration is
\* outstanding.
C33_PrerequisiteGate ==
    m.wizardMemory # "" =>
        /\ m.wizardMode
        /\ m.wizardStep < 2
        /\ loads = 0

\* C33: the check has failed, the user selected Exit, and the controller is in
\* normal mode with the default configuration written and an enumeration started
C33_NormalModeAfterFailedCheck ==
    /\ last.msg.type = "exitWizardMsg"
    /\ ~m.wizardMode
    /\ m.wizardStep = 1
    /\ m.result = NoResult
    /\ HasCmd(cmds, LoadContainersCmd) /\ loads = 1
    /\ cfg.exists /\ cfg.file.memory = "4g"
    /\ cfg \notin FreshConfigs

----------------------------------------------------------------------------
(* Properties of the opening animation (AnimationSpec) *)

Animating == m.wizardMode /\ m.wizardStep = 0 /\ ~m.animationComplete

\* what pressing Enter in the current state gives
AfterEnter == Update(m, KeyMsg("enter"), [DefaultEnv EXCEPT !.cfg = cfg])

\* C37: in a first run that is not resumed, each wizard animation tick advances the
\* animation by one column and schedules the next tick until the column reaches
\* 87; then animationComplete is set and no further tick is scheduled, so the
\* column never exceeds 87 and, the ticks being delivered, the animation ends.
\* Enter moves the wizard from step 0 to step 1 only when animationComplete is
\* true and is ignored before.
C37_OpeningAnimation ==
    /\ [](m.animationColumn <= AnimationColumns)
    /\ [](m.animationComplete <=> m.animationColumn = AnimationColumns)
    /\ [][(Animating /\ last'.msg.type = "wizardAnimationTickMsg") =>
              /\ m'.animationColumn = m.animationColumn + 1
              /\ IF m'.animationColumn < AnimationColumns
                 THEN ~m'.animationComplete /\ cmds' = <<WizardAnimationTickCmd>>
                      /\ wizTicks' = 1
                 ELSE m'.animationComplete /\ cmds' = <<>> /\ wizTicks' = 0]_vars
    /\ [][(m.wizardStep = 0 /\ m'.wizardStep # 0) =>
              m.animationComplete /\ m'.wizardStep = 1]_vars
    /\ [](Animating => AfterEnter.m.wizardStep = 0)
    /\ []((Animating /\ m.modal = NoModal) => AfterEnter.m = m /\ AfterEnter.cmds = <<>>)
    /\ []((m.wizardMode /\ m.wizardStep = 0 /\ m.animationComplete /\ m.modal = NoModal)
              => AfterEnter.m.wizardStep = 1)
    /\ (Animating /\ m.result = NoResult) ~> (m.animationComplete \/ m.result # NoResult)

\* C37: the 87th tick was handled: the animation is complete, no tick is pending,
\* and Enter now leads to step 1
C37_AnimationCompleted ==
    /\ last.msg.type = "wizardAnimationTickMsg"
    /\ m.wizardMode /\ m.wizardStep = 0
    /\ m.animationColumn = AnimationColumns
    /\ m.animationComplete
    /\ cmds = <<>> /\ wizTicks = 0
    /\ m.modal = NoModal
    /\ AfterEnter.m.wizardStep = 1

----------------------------------------------------------------------------
(* Properties of the tick chains (TickSpec) *)

\* C31: from the moment normal mode begins (at start, or on leaving the wizard by
\* Skip or Finish) until a Result is produced, exactly one animation tick and
\* exactly one background-refresh tick are pending at every moment, whatever
\* modals are opened and whatever operations run.
C31_OneChainEach ==
    (~m.wizardMode /\ m.result = NoResult) => animTicks = 1 /\ refreshTicks = 1

\* C31: a second exitWizardMsg was handled after the wizard had been left: two
\* animation ticks and two refresh ticks are pending
C31_TwoChainsEach ==
    /\ last.msg.type = "exitWizardMsg"
    /\ ~m.wizardMode
    /\ m.result = NoResult
    /\ animTicks = 2 /\ refreshTicks = 2
    /\ HasCmd(cmds, AnimationTickCmd) /\ HasCmd(cmds, RefreshTickCmd)

\* what handling an animation tick in the current state gives
AfterTick == Update(m, [type |-> "tickMsg"], [DefaultEnv EXCEPT !.cfg = cfg])

\* C38: an animation tick is absorbed unconditionally: in every state, with or
\* without a modal, in wizard or normal mode, handling it adds 1 to the animation
\* frame, schedules exactly one next animation tick, and leaves everything else
\* (the modal, the list and cursor, the wizard step, the status,
\* operationInProgress, the Result) unchanged.
C38_TickAbsorbed ==
    /\ [](/\ AfterTick.m = [m EXCEPT !.animationFrame = m.animationFrame + 1]
          /\ AfterTick.cmds = <<AnimationTickCmd>>
          /\ AfterTick.route = "absorbed")
    /\ [][last'.msg.type = "tickMsg" =>
              /\ m' = [m EXCEPT !.animationFrame = m.animationFrame + 1]
              /\ cmds' = <<AnimationTickCmd>>
              /\ animTicks' = animTicks
              /\ UNCHANGED <<loads, ops, ui, refreshTicks, cfg, checks, wizTicks>>]_vars

\* C38: a second animation tick was handled while a modal was open and an operation
\* was in progress
C38_TickUnderModal ==
    /\ last.msg.type = "tickMsg" /\ last.route = "absorbed"
    /\ m.modal # NoModal
    /\ m.operationInProgress
    /\ m.animationFrame = 2
    /\ cmds = <<AnimationTickCmd>>
    /\ animTicks = 1

----------------------------------------------------------------------------
(* Properties of the daemon's notifications (NotifySpec) *)

\* the notifications j > i of container c that came less than RateLimit minutes
\* after notification i
TooSoon(c) ==
    {<<i, j>> \in (DOMAIN daemon.sent[c]) \X (DOMAIN daemon.sent[c]) :
        i < j /\ daemon.sent[c][j].at - daemon.sent[c][i].at < RateLimit}

\* C39: for each container the daemon sends at most one notification within any
\* 30-minute window, whatever the two notifications' types and whatever the
\* running list did in between: any two notifications of one container are at
\* least RateLimit minutes apart.
C39_OncePerWindow ==
    ~daemon.nil => \A c \in Names : TooSoon(c) = {}

\* C39: a container was notified about, was missing from one listing, came back,
\* and was notified about again less than 30 minutes after the first notification
C39_NotifiedAgainAfterReappearing ==
    /\ ~daemon.nil
    /\ \E c \in Names :
          /\ Len(daemon.sent[c]) = 2
          /\ TooSoon(c) = {<<1, 2>>}
          /\ c \in DOMAIN daemon.containerStates
          /\ daemon.containerStates[c].LastActivity > daemon.sent[c][1].at
          /\ daemon.containerStates[c].LastNotified = daemon.sent[c][2].at

----------------------------------------------------------------------------
(* Properties of starting the daemon (DaemonSpec) *)

\* C40: starting the daemon never launches a second daemon while one is running:
\* at most one daemon process is alive at any time, also when two start requests
\* run concurrently, and a daemon that is alive and has written the PID file is
\* the process the file names.
C40_SingleDaemon ==
    /\ Cardinality(host.alive) <= 1
    /\ \A pid \in host.alive \cap host.wrote : host.pidFile = pid

\* C40: both start requests have returned, two daemon processes are alive and both
\* have written the PID file, which names the second one only
C40_TwoDaemons ==
    /\ \A s \in Starters : host.pc[s] = "returned"
    /\ host.said["daemon start"] = "started"
    /\ host.alive = {1, 2}
    /\ host.wrote = {1, 2}
    /\ host.pidFile = 2

====
